---- MODULE Spec2Model ----
(***************************************************************************)
(* Model of the mood tracker's data-access layer (services/db), of the     *)
(* handlers that use it (Auth.handleLogin / handleRegister,                *)
(* Search.handleSearch), of the listeners of subscribeToMoods and of the   *)
(* statistics of the Profile component.                                    *)
(*                                                                         *)
(* Strings are sequences of one-character strings, so that includes(),     *)
(* toLowerCase(), trim() and the splitting of a database path into its     *)
(* keys are computed as the code (and the database client) compute them.   *)
(* The hosted database is a set of leaves (path, primitive value); a       *)
(* JavaScript object is the set of its leaves.                             *)
(***************************************************************************)
EXTENDS Integers, Sequences, FiniteSets, TLC

(* ------------------------------------------------------------------ *)
(* Strings                                                             *)
(* ------------------------------------------------------------------ *)
UpperChars == <<"A","B","C","D","E","F","G","H","I","J","K","L","M",
                "N","O","P","Q","R","S","T","U","V","W","X","Y","Z">>

LowerChars == <<"a","b","c","d","e","f","g","h","i","j","k","l","m",
                "n","o","p","q","r","s","t","u","v","w","x","y","z">>

Whitespace == {" ", "\t", "\n"}

LowerChar(c) ==
  IF \E i \in 1..Len(UpperChars) : UpperChars[i] = c
    THEN LowerChars[CHOOSE i \in 1..Len(UpperChars) : UpperChars[i] = c]
    ELSE c

toLowerCase(s) == [i \in 1..Len(s) |-> LowerChar(s[i])]

RECURSIVE trimStart(_)
trimStart(s) ==
  IF s # <<>> /\ Head(s) \in Whitespace THEN trimStart(Tail(s)) ELSE s

RECURSIVE trimEnd(_)
trimEnd(s) ==
  IF s # <<>> /\ s[Len(s)] \in Whitespace
    THEN trimEnd(SubSeq(s, 1, Len(s) - 1)) ELSE s

trim(s) == trimEnd(trimStart(s))

includes(s, c) == \E i \in 1..Len(s) : s[i] = c

(* string literals of the code *)
K_users     == <<"u","s","e","r","s">>
K_usernames == <<"u","s","e","r","n","a","m","e","s">>
K_moods     == <<"m","o","o","d","s">>
K_profile   == <<"p","r","o","f","i","l","e">>
K_date      == <<"d","a","t","e">>
K_value     == <<"v","a","l","u","e">>
K_timestamp == <<"t","i","m","e","s","t","a","m","p">>
K_uid       == <<"u","i","d">>
K_username  == <<"u","s","e","r","n","a","m","e">>
K_email     == <<"e","m","a","i","l">>
Slash       == <<"/">>

(* ------------------------------------------------------------------ *)
(* The hosted hierarchical key-value store                             *)
(* ------------------------------------------------------------------ *)
Str(s) == [t |-> "s", s |-> s, n |-> 0]
Num(n) == [t |-> "n", s |-> <<>>, n |-> n]

Leaf(p, v) == [path |-> p, val |-> v]

(* a primitive as a JavaScript value: one leaf at the empty path *)
Prim(v) == {Leaf(<<>>, v)}

(* ref(db, path) / child(ref, path) throw on these characters *)
InvalidPathChars == {".", "#", "$", "[", "]"}

ValidPathString(ps) ==
  /\ Len(ps) # 0
  /\ \A i \in 1..Len(ps) : ps[i] \notin InvalidPathChars

(* a path string split on "/" into its keys, empty pieces dropped *)
RECURSIVE PiecesFrom(_, _)
PiecesFrom(ps, cur) ==
  IF ps = <<>>
    THEN (IF cur = <<>> THEN <<>> ELSE <<cur>>)
    ELSE IF Head(ps) = "/"
      THEN (IF cur = <<>> THEN <<>> ELSE <<cur>>) \o PiecesFrom(Tail(ps), <<>>)
      ELSE PiecesFrom(Tail(ps), Append(cur, Head(ps)))

Pieces(ps) == PiecesFrom(ps, <<>>)

IsPrefix(p, q) == Len(p) <= Len(q) /\ SubSeq(q, 1, Len(p)) = p

(* set(ref, value): the subtree at p is replaced by the value; a leaf *)
(* that is an ancestor of p stops being a leaf                        *)
DbSet(d, p, obj) ==
  {l \in d : ~IsPrefix(p, l.path) /\ ~IsPrefix(l.path, p)}
    \cup {Leaf(p \o o.path, o.val) : o \in obj}

(* remove(ref) *)
DbRemove(d, p) == {l \in d : ~IsPrefix(p, l.path)}

(* get(ref): the snapshot's value, as leaves relative to p *)
DbGet(d, p) ==
  {Leaf(SubSeq(l.path, Len(p) + 1, Len(l.path)), l.val) :
     l \in {x \in d : IsPrefix(p, x.path)}}

(* snapshot.exists() *)
Exists(snap) == snap # {}

(* JavaScript results of the reads *)
JSNull     == [k |-> "null", v |-> {}]
JSVal(obj) == [k |-> "val", v |-> obj]

(* the property obj[key] of an object *)
Field(obj, key) == DbGet(obj, <<key>>)

IsString(js) ==
  js.k = "val" /\ \E l \in js.v : js.v = {l} /\ l.path = <<>> /\ l.val.t = "s"

StringOf(js) == (CHOOSE l \in js.v : TRUE).val.s

(* ------------------------------------------------------------------ *)
(* types.ts                                                            *)
(* ------------------------------------------------------------------ *)
MoodLog(d, v, ts) == [date |-> d, value |-> v, timestamp |-> ts]

NoMood == [date |-> <<>>, value |-> 0, timestamp |-> 0]

ObjOfMood(m) ==
  { Leaf(<<K_date>>, Str(m.date)),
    Leaf(<<K_value>>, Num(m.value)),
    Leaf(<<K_timestamp>>, Num(m.timestamp)) }

UserProfile(uid, username, email) ==
  [uid |-> uid, username |-> username, email |-> email]

ObjOfProfile(p) ==
  { Leaf(<<K_uid>>, Str(p.uid)),
    Leaf(<<K_username>>, Str(p.username)),
    Leaf(<<K_email>>, Str(p.email)) }

(* ------------------------------------------------------------------ *)
(* services/db: every function as the database and result it yields.  *)
(* ok = the backend accepts the request; ~ok = the request fails.      *)
(* Result: db (database afterwards), out ("ok" | "raised"), val (the   *)
(* value returned), failed (the backend was asked and failed).         *)
(* ------------------------------------------------------------------ *)
Ret(d, out, val, failed) == [db |-> d, out |-> out, val |-> val, failed |-> failed]

UsernamePathString(normalizedUsername) ==
  K_usernames \o Slash \o normalizedUsername

ProfilePathString(userId) ==
  K_users \o Slash \o userId \o Slash \o K_profile

MoodPathString(userId, dateStr) ==
  K_users \o Slash \o userId \o Slash \o K_moods \o Slash \o dateStr

MoodsPathString(userId) ==
  K_users \o Slash \o userId \o Slash \o K_moods

(* registerUsername that lowercases but does not trim *)
registerUsername_noTrim(d, username, email, uid, ok) ==
  LET normalizedUsername == toLowerCase(username)
      ps == UsernamePathString(normalizedUsername)
  IN  IF ~ValidPathString(ps) THEN Ret(d, "raised", JSNull, FALSE)
      ELSE IF ~ok THEN Ret(d, "raised", JSNull, TRUE)
      ELSE Ret(DbSet(d, Pieces(ps), Prim(Str(uid))), "ok", JSNull, FALSE)

registerUsername(d, username, email, uid, ok) ==
  LET normalizedUsername == trim(toLowerCase(username))
      ps == UsernamePathString(normalizedUsername)
  IN  IF ~ValidPathString(ps) THEN Ret(d, "raised", JSNull, FALSE)
      ELSE IF ~ok THEN Ret(d, "raised", JSNull, TRUE)
      ELSE Ret(DbSet(d, Pieces(ps), Prim(Str(uid))), "ok", JSNull, FALSE)

(* getUidByUsername with the try/catch of the other reads *)
getUidByUsername_catch(d, username, ok) ==
  LET normalizedUsername == trim(toLowerCase(username))
      ps == UsernamePathString(normalizedUsername)
      snapshot == DbGet(d, Pieces(ps))
  IN  IF ~ValidPathString(ps) THEN Ret(d, "raised", JSNull, FALSE)
      ELSE IF ~ok THEN Ret(d, "ok", JSNull, TRUE)
      ELSE IF Exists(snapshot) THEN Ret(d, "ok", JSVal(snapshot), FALSE)
      ELSE Ret(d, "ok", JSNull, FALSE)

getUidByUsername(d, username, ok) ==
  LET normalizedUsername == trim(toLowerCase(username))
      ps == UsernamePathString(normalizedUsername)
      snapshot == DbGet(d, Pieces(ps))
  IN  IF ~ValidPathString(ps) THEN Ret(d, "raised", JSNull, FALSE)
      ELSE IF ~ok THEN Ret(d, "raised", JSNull, TRUE)
      ELSE IF Exists(snapshot) THEN Ret(d, "ok", JSVal(snapshot), FALSE)
      ELSE Ret(d, "ok", JSNull, FALSE)

saveUserProfile(d, userId, profile, ok) ==
  LET ps == ProfilePathString(userId)
  IN  IF includes(userId, ".") \/ includes(userId, "@")
        THEN Ret(d, "ok", JSNull, FALSE)
      ELSE IF ~ValidPathString(ps) THEN Ret(d, "raised", JSNull, FALSE)
      ELSE IF ~ok THEN Ret(d, "raised", JSNull, TRUE)
      ELSE Ret(DbSet(d, Pieces(ps), ObjOfProfile(profile)), "ok", JSNull, FALSE)

getUserProfile(d, userId, ok) ==
  LET ps == ProfilePathString(userId)
      snapshot == DbGet(d, Pieces(ps))
  IN  IF userId = <<>> \/ includes(userId, ".") \/ includes(userId, "@")
        THEN Ret(d, "ok", JSNull, FALSE)
      ELSE IF ~ValidPathString(ps) THEN Ret(d, "raised", JSNull, FALSE)
      ELSE IF ~ok THEN Ret(d, "ok", JSNull, TRUE)
      ELSE IF Exists(snapshot) THEN Ret(d, "ok", JSVal(snapshot), FALSE)
      ELSE Ret(d, "ok", JSNull, FALSE)

(* saveMood writing under the literal key "date" *)
saveMood_literalKey(d, userId, mood, ok) ==
  LET ps == MoodPathString(userId, K_date)
  IN  IF includes(userId, ".") \/ includes(userId, "@")
        THEN Ret(d, "ok", JSNull, FALSE)
      ELSE IF ~ValidPathString(ps) THEN Ret(d, "raised", JSNull, FALSE)
      ELSE IF ~ok THEN Ret(d, "raised", JSNull, TRUE)
      ELSE Ret(DbSet(d, Pieces(ps), ObjOfMood(mood)), "ok", JSNull, FALSE)

(* saveMood that drops a record older than the one stored at its key *)
saveMood_newerOnly(d, userId, mood, ok) ==
  LET ps == MoodPathString(userId, mood.date)
      stored == DbGet(d, Pieces(ps))
  IN  IF includes(userId, ".") \/ includes(userId, "@")
        THEN Ret(d, "ok", JSNull, FALSE)
      ELSE IF ~ValidPathString(ps) THEN Ret(d, "raised", JSNull, FALSE)
      ELSE IF ~ok THEN Ret(d, "raised", JSNull, TRUE)
      ELSE IF \E l \in stored : l.path = <<K_timestamp>> /\ l.val.n > mood.timestamp
        THEN Ret(d, "ok", JSNull, FALSE)
      ELSE Ret(DbSet(d, Pieces(ps), ObjOfMood(mood)), "ok", JSNull, FALSE)

(* saveMood that sets the whole collection to the one record *)
saveMood_wholeCollection(d, userId, mood, ok) ==
  LET ps == MoodsPathString(userId)
  IN  IF includes(userId, ".") \/ includes(userId, "@")
        THEN Ret(d, "ok", JSNull, FALSE)
      ELSE IF ~ValidPathString(ps) THEN Ret(d, "raised", JSNull, FALSE)
      ELSE IF ~ok THEN Ret(d, "raised", JSNull, TRUE)
      ELSE Ret(DbSet(d, Pieces(ps),
                     {Leaf(<<mood.date>> \o o.path, o.val) : o \in ObjOfMood(mood)}),
               "ok", JSNull, FALSE)

(* saveMood whose guard forgets '@' *)
saveMood_guardDotOnly(d, userId, mood, ok) ==
  LET ps == MoodPathString(userId, mood.date)
  IN  IF includes(userId, ".")
        THEN Ret(d, "ok", JSNull, FALSE)
      ELSE IF ~ValidPathString(ps) THEN Ret(d, "raised", JSNull, FALSE)
      ELSE IF ~ok THEN Ret(d, "raised", JSNull, TRUE)
      ELSE Ret(DbSet(d, Pieces(ps), ObjOfMood(mood)), "ok", JSNull, FALSE)

saveMood(d, userId, mood, ok) ==
  LET ps == MoodPathString(userId, mood.date)
  IN  IF includes(userId, ".") \/ includes(userId, "@")
        THEN Ret(d, "ok", JSNull, FALSE)
      ELSE IF ~ValidPathString(ps) THEN Ret(d, "raised", JSNull, FALSE)
      ELSE IF ~ok THEN Ret(d, "raised", JSNull, TRUE)
      ELSE Ret(DbSet(d, Pieces(ps), ObjOfMood(mood)), "ok", JSNull, FALSE)

(* deleteMood removing the whole collection of the user *)
deleteMood_collection(d, userId, dateStr, ok) ==
  LET ps == MoodsPathString(userId)
  IN  IF includes(userId, ".") \/ includes(userId, "@")
        THEN Ret(d, "ok", JSNull, FALSE)
      ELSE IF ~ValidPathString(ps) THEN Ret(d, "raised", JSNull, FALSE)
      ELSE IF ~ok THEN Ret(d, "raised", JSNull, TRUE)
      ELSE Ret(DbRemove(d, Pieces(ps)), "ok", JSNull, FALSE)

deleteMood(d, userId, dateStr, ok) ==
  LET ps == MoodPathString(userId, dateStr)
  IN  IF includes(userId, ".") \/ includes(userId, "@")
        THEN Ret(d, "ok", JSNull, FALSE)
      ELSE IF ~ValidPathString(ps) THEN Ret(d, "raised", JSNull, FALSE)
      ELSE IF ~ok THEN Ret(d, "raised", JSNull, TRUE)
      ELSE Ret(DbRemove(d, Pieces(ps)), "ok", JSNull, FALSE)

(* getUserMoods without its try/catch *)
getUserMoods_noCatch(d, userId, ok) ==
  LET ps == MoodsPathString(userId)
      snapshot == DbGet(d, Pieces(ps))
  IN  IF userId = <<>> \/ includes(userId, ".") \/ includes(userId, "@")
        THEN Ret(d, "ok", JSVal({}), FALSE)
      ELSE IF ~ValidPathString(ps) THEN Ret(d, "raised", JSNull, FALSE)
      ELSE IF ~ok THEN Ret(d, "raised", JSNull, TRUE)
      ELSE IF Exists(snapshot) THEN Ret(d, "ok", JSVal(snapshot), FALSE)
      ELSE Ret(d, "ok", JSVal({}), FALSE)

getUserMoods(d, userId, ok) ==
  LET ps == MoodsPathString(userId)
      snapshot == DbGet(d, Pieces(ps))
  IN  IF userId = <<>> \/ includes(userId, ".") \/ includes(userId, "@")
        THEN Ret(d, "ok", JSVal({}), FALSE)
      ELSE IF ~ValidPathString(ps) THEN Ret(d, "raised", JSNull, FALSE)
      ELSE IF ~ok THEN Ret(d, "ok", JSVal({}), TRUE)
      ELSE IF Exists(snapshot) THEN Ret(d, "ok", JSVal(snapshot), FALSE)
      ELSE Ret(d, "ok", JSVal({}), FALSE)

(* ------------------------------------------------------------------ *)
(* Bounds                                                              *)
(* ------------------------------------------------------------------ *)
(* handler runs (login, registration, search, getEmailByUsername)     *)
(* started in one behaviour                                            *)
MaxCalls == 3
(* subscribeToMoods calls, and writes made while listeners exist *)
MaxSubs == 1
MaxWrites == 2
(* records in a collection given to the Profile component *)
MaxRecords == 4
(* sign-ins into the App (each makes one subscribeToMoods call), and   *)
(* the months the calendar is moved away from June 2024                *)
MaxSignIns == 2
MaxMonths == 6
(* saveMood / deleteMood requests made by the App's handlers *)
MaxRequests == 3

(* ------------------------------------------------------------------ *)
(* Inputs                                                              *)
(* ------------------------------------------------------------------ *)
EmptyId == <<>>
Uid1    == <<"u","1">>
Uid2    == <<"u","2">>
Uid3    == <<"u","3">>
DotId   == <<"a",".","b">>
AtId    == <<"a","@","b">>

UserIds == {EmptyId, Uid1, DotId, AtId}

Date1 == <<"2","0","2","4","-","0","5","-","0","1">>
Date2 == <<"2","0","2","4","-","0","5","-","0","2">>
Dates == {Date1, Date2}

(* mood records handed to saveMood: two values per date *)
Moods == { MoodLog(Date1, 2, 1), MoodLog(Date1, -1, 2),
           MoodLog(Date2, 2, 1), MoodLog(Date2, -1, 2) }

Email1 == <<"a","@","x">>
Email2 == <<"b","@","x">>
Email3 == <<"c","@","x">>

(* usernames typed by users; the first three differ by case and blanks *)
Usernames == { <<"a","n","n">>, <<" ","A","n","n">>, <<"A","N","N"," ">>,
               <<"b","o","b">>, <<"a",".","n">> }

Profiles == { UserProfile(Uid1, <<"a","n","n">>, Email1) }

(* the database before the first step: one username mapping in the *)
(* legacy format (an email instead of an identifier)                *)
InitDb == { Leaf(<<K_usernames, <<"a","n","n">>>>, Str(Email1)) }

(* the accounts of the authentication provider: the legacy user's   *)
InitAccounts == { [email |-> Email1, uid |-> Uid1] }

(* the identifier the provider gives to a new account *)
NewUid(email) ==
  IF email = Email1 THEN Uid1 ELSE IF email = Email2 THEN Uid2 ELSE Uid3

Sessions == {1, 2}

LoginInputs == { <<"A","N","N"," ">>, <<"b","o","b">>, Email1 }

RegisterInputs == { [username |-> <<"b","o","b">>, email |-> Email2],
                    [username |-> <<"B","O","B">>, email |-> Email3],
                    [username |-> <<" ","A","n","n">>, email |-> Email2],
                    [username |-> <<"b","o">>, email |-> Email2] }

SearchQueries == { <<"a","n","n">>, <<"b","o","b">>, <<" ">> }

(* ------------------------------------------------------------------ *)
(* Profile: the statistics of a mood collection                        *)
(* ------------------------------------------------------------------ *)
Digits == <<"0","1","2","3","4","5","6","7","8","9">>

IsDigit(c) == \E i \in 1..10 : Digits[i] = c

DigitValue(c) == (CHOOSE i \in 1..10 : Digits[i] = c) - 1

(* String(n) of a natural number *)
RECURSIVE NatToString(_)
NatToString(n) ==
  IF n < 10 THEN <<Digits[n + 1]>>
  ELSE Append(NatToString(n \div 10), Digits[(n % 10) + 1])

(* s.padStart(2, '0') *)
padStart2(s) == IF Len(s) >= 2 THEN s ELSE <<"0">> \o s

(* s.split(sep) *)
RECURSIVE SplitFrom(_, _, _)
SplitFrom(s, sep, cur) ==
  IF s = <<>> THEN <<cur>>
  ELSE IF Head(s) = sep THEN <<cur>> \o SplitFrom(Tail(s), sep, <<>>)
  ELSE SplitFrom(Tail(s), sep, Append(cur, Head(s)))

split(s, sep) == SplitFrom(s, sep, <<>>)

(* a JavaScript number that is an integer, or NaN *)
JSInt(n) == [nan |-> FALSE, n |-> n]
NaN      == [nan |-> TRUE, n |-> 0]

RECURSIVE DigitsValue(_)
DigitsValue(s) ==
  IF s = <<>> THEN 0
  ELSE 10 * DigitsValue(SubSeq(s, 1, Len(s) - 1)) + DigitValue(s[Len(s)])

(* Number(s) of a piece of a date string; a missing piece is undefined *)
ToNumber(s) ==
  IF \A i \in 1..Len(s) : IsDigit(s[i]) THEN JSInt(DigitsValue(s)) ELSE NaN

PieceNumber(parts, i) == IF i <= Len(parts) THEN ToNumber(parts[i]) ELSE NaN

(* the calendar of Date: days since 1970-01-01 of a civil date, and   *)
(* the civil date of a day number (proleptic Gregorian)                *)
DaysFromCivil(y, m, d) ==
  LET yy  == IF m <= 2 THEN y - 1 ELSE y
      era == yy \div 400
      yoe == yy - era * 400
      mp  == (m + 9) % 12
      doy == (153 * mp + 2) \div 5 + d - 1
      doe == yoe * 365 + yoe \div 4 - yoe \div 100 + doy
  IN  era * 146097 + doe - 719468

CivilFromDays(z) ==
  LET zz  == z + 719468
      era == zz \div 146097
      doe == zz - era * 146097
      yoe == (doe - doe \div 1460 + doe \div 36524 - doe \div 146096) \div 365
      doy == doe - (365 * yoe + yoe \div 4 - yoe \div 100)
      mp  == (5 * doy + 2) \div 153
      d   == doy - (153 * mp + 2) \div 5 + 1
      m   == IF mp < 10 THEN mp + 3 ELSE mp - 9
      y   == yoe + era * 400 + (IF m <= 2 THEN 1 ELSE 0)
  IN  [y |-> y, m |-> m, d |-> d]

(* a Date in local time: its day and the milliseconds into that day *)
JSDate(day, ms) == [valid |-> TRUE, day |-> day, ms |-> ms]
InvalidDate     == [valid |-> FALSE, day |-> 0, ms |-> 0]

(* new Date(y, monthIndex, d) *)
NewDate(y, monthIndex, d) ==
  IF y.nan \/ monthIndex.nan \/ d.nan THEN InvalidDate
  ELSE LET full == IF y.n >= 0 /\ y.n <= 99 THEN 1900 + y.n ELSE y.n
       IN  JSDate(DaysFromCivil(full + monthIndex.n \div 12,
                                (monthIndex.n % 12) + 1, 1) + d.n - 1, 0)

getDay(date)      == (date.day + 4) % 7
getDate(date)     == CivilFromDays(date.day).d
getMonth(date)    == CivilFromDays(date.day).m - 1
getFullYear(date) == CivilFromDays(date.day).y

setDate(date, n) == [date EXCEPT !.day = date.day - getDate(date) + n]

(* date.setMonth(m): the day of the month is kept and overflows into *)
(* the following month                                                *)
setMonth(date, m) ==
  [date EXCEPT !.day = DaysFromCivil(getFullYear(date) + m \div 12,
                                     (m % 12) + 1, 1) + getDate(date) - 1]

setHours(date, h, mi, sec, ms) ==
  [date EXCEPT !.ms = ((h * 60 + mi) * 60 + sec) * 1000 + ms]

(* a >= b and a <= b of two Dates; false when one is invalid *)
DateGE(a, b) ==
  a.valid /\ b.valid /\ (a.day > b.day \/ (a.day = b.day /\ a.ms >= b.ms))

DateLE(a, b) == DateGE(b, a)

(* `${year}-${String(month + 1).padStart(2, '0')}-${String(i).padStart(2, '0')}` *)
(* the date string the calendar gives the day with this day number                *)
DateStrOfDay(day) ==
  LET c == CivilFromDays(day) IN
    NatToString(c.y) \o <<"-">> \o padStart2(NatToString(c.m))
      \o <<"-">> \o padStart2(NatToString(c.d))

(* a number with one decimal, in tenths, or NaN *)
Tenths(t)  == [nan |-> FALSE, t |-> t]
NaNAverage == [nan |-> TRUE, t |-> 0]

RECURSIVE SumValues(_)
SumValues(logs) ==
  IF logs = {} THEN 0
  ELSE LET m == CHOOSE x \in logs : TRUE IN m.value + SumValues(logs \ {m})

(* (sum / len).toFixed(1): the nearest tenth, a half away from zero    *)
(* (exact for fewer than 20 records, where a half is a quarter and is  *)
(* represented exactly); a negative quotient keeps its sign            *)
toFixed1(sum, len) ==
  LET a == IF sum < 0 THEN -sum ELSE sum
      n == (20 * a + len) \div (2 * len)
  IN  (IF sum < 0 THEN <<"-">> ELSE <<>>)
        \o NatToString(n \div 10) \o <<".">> \o <<Digits[(n % 10) + 1]>>

(* parseFloat of a string [-]digits[.digit] *)
parseFloat(s) ==
  LET neg   == s # <<>> /\ Head(s) = "-"
      body  == IF neg THEN Tail(s) ELSE s
      parts == split(body, ".")
      whole == parts[1]
      frac  == IF Len(parts) >= 2 THEN parts[2] ELSE <<>>
  IN  IF whole = <<>> \/ ~(\A i \in 1..Len(whole) : IsDigit(whole[i]))
         \/ Len(frac) > 1 \/ ~(\A i \in 1..Len(frac) : IsDigit(frac[i]))
        THEN NaNAverage
      ELSE LET t == 10 * DigitsValue(whole) + DigitsValue(frac)
           IN  Tenths(IF neg THEN -t ELSE t)

(* getAverage without its guard: 0 / 0 is NaN *)
getAverage_noEmptyGuard(logs) ==
  IF Cardinality(logs) = 0 THEN NaNAverage
  ELSE parseFloat(toFixed1(SumValues(logs), Cardinality(logs)))

(* getAverage rounding to a whole number *)
getAverage_whole(logs) ==
  IF Cardinality(logs) = 0 THEN Tenths(0)
  ELSE LET t == parseFloat(toFixed1(SumValues(logs), Cardinality(logs))).t
       IN  Tenths(10 * ((t + 5) \div 10))

getAverage(logs) ==
  IF Cardinality(logs) = 0 THEN Tenths(0)
  ELSE parseFloat(toFixed1(SumValues(logs), Cardinality(logs)))

(* the week starting on Sunday *)
distanceToMonday_jsWeek(currentDay) == currentDay - 1

distanceToMonday(currentDay) == IF currentDay = 0 THEN 6 ELSE currentDay - 1

Monday(today) ==
  setHours(setDate(today, getDate(today) - distanceToMonday(getDay(today))),
           0, 0, 0, 0)

Sunday(today) ==
  LET monday == Monday(today) IN
    setHours(setDate(monday, getDate(monday) + 6), 23, 59, 59, 999)

currentWeekLogs(today, moodList) ==
  { m \in moodList :
      LET parts   == split(m.date, "-")
          dateObj == NewDate(PieceNumber(parts, 1),
                        IF PieceNumber(parts, 2).nan THEN NaN
                        ELSE JSInt(PieceNumber(parts, 2).n - 1),
                        PieceNumber(parts, 3))
      IN  DateGE(dateObj, Monday(today)) /\ DateLE(dateObj, Sunday(today)) }

(* the month filter without the year *)
currentMonthLogs_noYear(today, moodList) ==
  { m \in moodList :
      LET parts == split(m.date, "-")
          mo    == PieceNumber(parts, 2)
      IN  ~mo.nan /\ mo.n - 1 = getMonth(today) }

currentMonthLogs(today, moodList) ==
  { m \in moodList :
      LET parts == split(m.date, "-")
          y     == PieceNumber(parts, 1)
          mo    == PieceNumber(parts, 2)
      IN  /\ ~y.nan /\ y.n = getFullYear(today)
          /\ ~mo.nan /\ mo.n - 1 = getMonth(today) }

Stat(label, logs) ==
  [label |-> label, value |-> getAverage(logs), count |-> Cardinality(logs)]

(* String(v) of a number with one decimal *)
NumberToString(v) ==
  IF v.nan THEN <<"N","a","N">>
  ELSE LET a == IF v.t < 0 THEN -v.t ELSE v.t IN
         (IF v.t < 0 THEN <<"-">> ELSE <<>>) \o NatToString(a \div 10)
           \o (IF a % 10 = 0 THEN <<>> ELSE <<".", Digits[(a % 10) + 1]>>)

(* a display that takes a zero average for "no data" *)
displayValue_byValue(stat) ==
  IF stat.value.nan \/ stat.value.t # 0
    THEN (IF ~stat.value.nan /\ stat.value.t > 0
            THEN <<"+">> \o NumberToString(stat.value)
            ELSE NumberToString(stat.value))
    ELSE <<"-">>

(* stat.count > 0 ? (stat.value > 0 ? `+${stat.value}` : `${stat.value}`) : '-' *)
displayValue(stat) ==
  IF stat.count > 0
    THEN (IF ~stat.value.nan /\ stat.value.t > 0
            THEN <<"+">> \o NumberToString(stat.value)
            ELSE NumberToString(stat.value))
    ELSE <<"-">>

(* stat.count > 0 ? MOOD_LABELS[roundedForColor] : the "no data" text *)
displayLabel(stat) == IF stat.count > 0 THEN "MOOD_LABELS" ELSE "no data"

(* the Profile component rendered today with these moods *)
Profile(today, moods) ==
  LET moodList == moods
      week     == currentWeekLogs(today, moodList)
      month    == currentMonthLogs(today, moodList)
      stats    == << Stat("week", week), Stat("month", month),
                     Stat("all", moodList) >>
  IN  [today |-> today, moods |-> moods, week |-> week, month |-> month,
       stats |-> stats,
       shown |-> [i \in 1..3 |-> displayValue(stats[i])]]

(* days: Sunday 2024-06-23 to Monday 2024-07-01, and a day of June 2023 *)
Sun0623 == DaysFromCivil(2024, 6, 23)
Jun2023 == DaysFromCivil(2023, 6, 26)

RecordDays == {Jun2023} \cup {Sun0623 + k : k \in {0, 1, 3, 7, 8}}

(* the records a collection is made of: one per date, the timestamp   *)
(* unrelated to the date                                               *)
Records ==
  { MoodLog(DateStrOfDay(Sun0623), 3, 1),
    MoodLog(DateStrOfDay(Sun0623 + 1), 2, 2),
    MoodLog(DateStrOfDay(Sun0623 + 1), -3, 1),
    MoodLog(DateStrOfDay(Sun0623 + 3), -2, 1),
    MoodLog(DateStrOfDay(Sun0623 + 3), 1, 2),
    MoodLog(DateStrOfDay(Sun0623 + 7), 1, 1),
    MoodLog(DateStrOfDay(Sun0623 + 8), 0, 2),
    MoodLog(DateStrOfDay(Jun2023), -3, 2) }

Todays ==
  { JSDate(Sun0623 + k, ms) : k \in {1, 3, 7, 8}, ms \in {0, 86399999} }

(* ------------------------------------------------------------------ *)
(* State                                                               *)
(* ------------------------------------------------------------------ *)
VARIABLES
  db,        \* the hosted database
  res,       \* the last direct call of a services/db function and its result
  shadow,    \* history: per (userId, date) the mood of the last accepted write
  ge,        \* a getEmailByUsername call: its position and result
  accounts,  \* the accounts of the authentication provider
  sess,      \* per client: the handler in progress and the component state
  calls,     \* handler runs (requests, under listeners) started so far
  subs,      \* the subscribeToMoods calls made, in order, and their listeners
  view,      \* the Profile component: today, the moods it is given, its stats
  app        \* per client: the state of the App component

vars == <<db, res, shadow, ge, accounts, sess, calls, subs, view, app>>

NoStr == <<>>

(* prev: the mood last written at the key of a saveMood / deleteMood, *)
(* as it was before the call                                          *)
CallP(op, a1, a2, r, prev) ==
  [op |-> op, a1 |-> a1, a2 |-> a2, failed |-> r.failed, out |-> r.out,
   val |-> r.val, prev |-> prev]

Call(op, a1, a2, r) == CallP(op, a1, a2, r, NoMood)

WellFormed(userId) == ~includes(userId, ".") /\ ~includes(userId, "@")

GeIdle == [pc |-> "idle", username |-> NoStr, uid |-> NoStr,
           out |-> "ok", val |-> JSNull]

(* a client with no handler in progress, nobody signed in *)
SessIdle ==
  [pc |-> "idle", input |-> NoStr, email |-> NoStr, uid |-> NoStr,
   legacy |-> FALSE, error |-> "", loading |-> FALSE, user |-> NoStr,
   repair |-> "none", found |-> FALSE, cleared |-> FALSE]

(* no request of the App in flight *)
NoRequest == [kind |-> "none", userId |-> NoStr, mood |-> NoMood]

AppClients == {1, 2}

(* the App component as mounted on 2024-06-24, before the first auth  *)
(* event. Besides its useState values:                                *)
(*   cleanup: the index of the subscribeToMoods call whose returned   *)
(*            function is the pending cleanup of the data effect (0:  *)
(*            none)                                                   *)
(*   req:     the saveMood / deleteMood request awaited by a handler  *)
(*   listeners, from, sent, out are history: the subscribeToMoods     *)
(*            calls made by this App, the userId of the subscription  *)
(*            whose push last set the mirror, the last request sent   *)
(*            and how it ended                                        *)
AppIdle ==
  [user |-> NoStr, moods |-> {}, currentDate |-> JSDate(DaysFromCivil(2024, 6, 24), 0),
   selectedDateStr |-> NoStr, isModalOpen |-> FALSE, tempMood |-> 0,
   isEditing |-> FALSE, cleanup |-> 0, req |-> NoRequest,
   listeners |-> {}, from |-> NoStr, sent |-> NoRequest, out |-> "none"]

Init ==
  /\ db = InitDb
  /\ res = Call("none", NoStr, NoStr, Ret(InitDb, "ok", JSNull, FALSE))
  /\ shadow = [k \in {u \in UserIds : WellFormed(u)} \X Dates |-> NoMood]
  /\ ge = GeIdle
  /\ accounts = InitAccounts
  /\ sess = [s \in Sessions |-> SessIdle]
  /\ calls = 0
  /\ subs = <<>>
  /\ view = Profile(JSDate(DaysFromCivil(2024, 6, 24), 0), {})
  /\ app = [c \in AppClients |-> AppIdle]

(* ------------------------------------------------------------------ *)
(* Direct calls of the services/db functions                           *)
(* ------------------------------------------------------------------ *)
SaveMood ==
  \E userId \in UserIds, mood \in Moods, ok \in BOOLEAN :
    LET r == saveMood(db, userId, mood, ok) IN
      /\ db' = r.db
      /\ res' = CallP("saveMood", userId, mood.date, r,
                      IF WellFormed(userId) THEN shadow[<<userId, mood.date>>]
                      ELSE NoMood)
      /\ shadow' = IF WellFormed(userId) /\ r.out = "ok"
                     THEN [shadow EXCEPT ![<<userId, mood.date>>] = mood]
                     ELSE shadow
      /\ UNCHANGED <<ge, accounts, sess, calls, subs, view, app>>

DeleteMood ==
  \E userId \in UserIds, dateStr \in Dates, ok \in BOOLEAN :
    LET r == deleteMood(db, userId, dateStr, ok) IN
      /\ db' = r.db
      /\ res' = CallP("deleteMood", userId, dateStr, r,
                      IF WellFormed(userId) THEN shadow[<<userId, dateStr>>]
                      ELSE NoMood)
      /\ shadow' = IF WellFormed(userId) /\ r.out = "ok"
                     THEN [shadow EXCEPT ![<<userId, dateStr>>] = NoMood]
                     ELSE shadow
      /\ UNCHANGED <<ge, accounts, sess, calls, subs, view, app>>

GetUserMoods ==
  \E userId \in UserIds, ok \in BOOLEAN :
    LET r == getUserMoods(db, userId, ok) IN
      /\ res' = Call("getUserMoods", userId, NoStr, r)
      /\ UNCHANGED <<db, shadow, ge, accounts, sess, calls, subs, view, app>>

SaveUserProfile ==
  \E userId \in UserIds, profile \in Profiles, ok \in BOOLEAN :
    LET r == saveUserProfile(db, userId, profile, ok) IN
      /\ db' = r.db
      /\ res' = Call("saveUserProfile", userId, profile.username, r)
      /\ UNCHANGED <<shadow, ge, accounts, sess, calls, subs, view, app>>

GetUserProfile ==
  \E userId \in UserIds, ok \in BOOLEAN :
    LET r == getUserProfile(db, userId, ok) IN
      /\ res' = Call("getUserProfile", userId, NoStr, r)
      /\ UNCHANGED <<db, shadow, ge, accounts, sess, calls, subs, view, app>>

RegisterUsername ==
  \E username \in Usernames, uid \in {Uid1, Uid2}, ok \in BOOLEAN :
    LET r == registerUsername(db, username, Email1, uid, ok) IN
      /\ db' = r.db
      /\ res' = Call("registerUsername", username, uid, r)
      /\ UNCHANGED <<shadow, ge, accounts, sess, calls, subs, view, app>>

GetUidByUsername ==
  \E username \in Usernames, ok \in BOOLEAN :
    LET r == getUidByUsername(db, username, ok) IN
      /\ res' = Call("getUidByUsername", username, NoStr, r)
      /\ UNCHANGED <<db, shadow, ge, accounts, sess, calls, subs, view, app>>

(* the Mood Store and the Profile Store, called directly *)
Next ==
  \/ SaveMood
  \/ DeleteMood
  \/ GetUserMoods
  \/ SaveUserProfile
  \/ GetUserProfile

Spec == Init /\ [][Next]_vars

(* the Identity Directory, called directly *)
NextDir ==
  \/ RegisterUsername
  \/ GetUidByUsername

SpecDir == Init /\ [][NextDir]_vars

(* ------------------------------------------------------------------ *)
(* getEmailByUsername: await getUidByUsername, then (for an           *)
(* identifier) await getUserProfile                                    *)
(* ------------------------------------------------------------------ *)
GetEmailLookup ==
  /\ ge.pc # "profile"
  /\ calls < MaxCalls
  /\ calls' = calls + 1
  /\ \E username \in Usernames, ok \in BOOLEAN :
       LET r == getUidByUsername(db, username, ok) IN
         ge' = IF r.out = "raised"
                 THEN [GeIdle EXCEPT !.pc = "done", !.out = "raised"]
               ELSE IF r.val = JSNull
                 THEN [GeIdle EXCEPT !.pc = "done"]
               ELSE IF ~IsString(r.val)
                 \* uid.includes is not a function
                 THEN [GeIdle EXCEPT !.pc = "done", !.out = "raised"]
               ELSE IF ~includes(StringOf(r.val), "@")
                 THEN [GeIdle EXCEPT !.pc = "profile", !.username = username,
                                     !.uid = StringOf(r.val)]
               \* fallback for legacy data: the stored email
               ELSE [GeIdle EXCEPT !.pc = "done", !.val = r.val]
  /\ UNCHANGED <<db, res, shadow, accounts, sess, subs, view, app>>

GetEmailProfile ==
  /\ ge.pc = "profile"
  /\ \E ok \in BOOLEAN :
       LET r == getUserProfile(db, ge.uid, ok) IN
         ge' = [GeIdle EXCEPT !.pc = "done", !.out = r.out,
                  !.val = IF r.out = "ok" /\ r.val # JSNull
                            THEN JSVal(Field(r.val.v, K_email)) ELSE JSNull]
  /\ UNCHANGED <<db, res, shadow, accounts, sess, calls, subs, view, app>>

(* ------------------------------------------------------------------ *)
(* Auth.handleLogin                                                    *)
(* ------------------------------------------------------------------ *)
(* the handler of client s returns: finally { setLoading(false) } *)
Finish(s, error, repair, found) ==
  [SessIdle EXCEPT !.error = error, !.repair = repair, !.found = found,
                   !.user = sess[s].user, !.cleared = sess[s].cleared]

Begin(s) ==
  [SessIdle EXCEPT !.loading = TRUE, !.found = sess[s].found,
                   !.user = sess[s].user, !.cleared = sess[s].cleared]

CanStart(s) == sess[s].pc = "idle" /\ calls < MaxCalls

(* submit of the login form up to the first await that needs the backend *)
LoginSubmit(s) ==
  /\ CanStart(s)
  /\ sess[s].user = NoStr
  /\ calls' = calls + 1
  /\ \E email \in LoginInputs, ok \in BOOLEAN :
       LET usernameInput == trim(email)
           r == getUidByUsername(db, usernameInput, ok)
       IN  sess' = [sess EXCEPT ![s] =
             IF includes(email, "@")
               THEN [Begin(s) EXCEPT !.pc = "login_signin",
                                     !.input = usernameInput, !.email = email]
             ELSE IF r.out = "raised" \/ r.val = JSNull \/ ~IsString(r.val)
               THEN Finish(s, "login", "none", sess[s].found)
             ELSE IF includes(StringOf(r.val), "@")
               THEN [Begin(s) EXCEPT !.pc = "login_signin",
                                     !.input = usernameInput,
                                     !.email = StringOf(r.val),
                                     !.legacy = TRUE]
             ELSE [Begin(s) EXCEPT !.pc = "login_profile",
                                   !.input = usernameInput,
                                   !.uid = StringOf(r.val)] ]
  /\ UNCHANGED <<db, res, shadow, ge, accounts, subs, view, app>>

(* await getUserProfile(lookupValue) *)
LoginProfile(s) ==
  /\ sess[s].pc = "login_profile"
  /\ \E ok \in BOOLEAN :
       LET r == getUserProfile(db, sess[s].uid, ok)
           email == IF r.out = "ok" /\ r.val # JSNull
                      THEN JSVal(Field(r.val.v, K_email)) ELSE JSNull
       IN  sess' = [sess EXCEPT ![s] =
             IF IsString(email) /\ StringOf(email) # <<>>
               THEN [sess[s] EXCEPT !.pc = "login_signin",
                                    !.email = StringOf(email)]
               ELSE Finish(s, "login", "none", sess[s].found) ]
  /\ UNCHANGED <<db, res, shadow, ge, accounts, calls, subs, view, app>>

(* a sign-in that stores a profile for the account it signed in *)
LoginSignIn_storesProfile(s) ==
  /\ sess[s].pc = "login_signin"
  /\ \E passwordOk \in BOOLEAN :
       IF passwordOk /\ \E a \in accounts : a.email = sess[s].email
         THEN LET a == CHOOSE a \in accounts : a.email = sess[s].email IN
                /\ db' = saveUserProfile(db, a.uid,
                            UserProfile(a.uid, sess[s].input, sess[s].email),
                            TRUE).db
                /\ sess' = [sess EXCEPT ![s] =
                     IF sess[s].legacy /\ includes(sess[s].email, "@")
                       THEN [sess[s] EXCEPT !.pc = "repair_register",
                                            !.uid = a.uid, !.user = a.uid]
                       ELSE [Finish(s, "", "none", sess[s].found)
                               EXCEPT !.user = a.uid] ]
         ELSE /\ db' = db
              /\ sess' = [sess EXCEPT ![s] =
                           Finish(s, "login", "none", sess[s].found)]
  /\ UNCHANGED <<res, shadow, ge, accounts, calls, subs, view, app>>

(* await auth.signInWithEmailAndPassword(loginEmail, password) *)
LoginSignIn(s) ==
  /\ sess[s].pc = "login_signin"
  /\ \E passwordOk \in BOOLEAN :
       IF passwordOk /\ \E a \in accounts : a.email = sess[s].email
         THEN LET a == CHOOSE a \in accounts : a.email = sess[s].email IN
                sess' = [sess EXCEPT ![s] =
                  IF sess[s].legacy /\ includes(sess[s].email, "@")
                    THEN [sess[s] EXCEPT !.pc = "repair_register",
                                         !.uid = a.uid, !.user = a.uid]
                    ELSE [Finish(s, "", "none", sess[s].found)
                            EXCEPT !.user = a.uid] ]
         ELSE sess' = [sess EXCEPT ![s] =
                         Finish(s, "login", "none", sess[s].found)]
  /\ UNCHANGED <<db, res, shadow, ge, accounts, calls, subs, view, app>>

(* an auto-repair that writes the email back into the mapping *)
LoginRepairRegister_storesEmail(s) ==
  /\ sess[s].pc = "repair_register"
  /\ \E ok \in BOOLEAN :
       LET r == registerUsername(db, sess[s].input, sess[s].email,
                                 sess[s].email, ok)
       IN  /\ db' = r.db
           /\ sess' = [sess EXCEPT ![s] =
                IF r.out = "ok"
                  THEN [sess[s] EXCEPT !.pc = "repair_profile"]
                  ELSE Finish(s, "", "failed_register", sess[s].found) ]
  /\ UNCHANGED <<res, shadow, ge, accounts, calls, subs, view, app>>

(* auto-repair: await registerUsername(usernameInput, loginEmail, uid) *)
LoginRepairRegister(s) ==
  /\ sess[s].pc = "repair_register"
  /\ \E ok \in BOOLEAN :
       LET r == registerUsername(db, sess[s].input, sess[s].email,
                                 sess[s].uid, ok)
       IN  /\ db' = r.db
           /\ sess' = [sess EXCEPT ![s] =
                IF r.out = "ok"
                  THEN [sess[s] EXCEPT !.pc = "repair_profile"]
                  ELSE Finish(s, "", "failed_register", sess[s].found) ]
  /\ UNCHANGED <<res, shadow, ge, accounts, calls, subs, view, app>>

(* an auto-repair without its own try/catch: the failure reaches the *)
(* catch of the handler                                              *)
LoginRepairProfile_noInnerCatch(s) ==
  /\ sess[s].pc = "repair_profile"
  /\ \E ok \in BOOLEAN :
       LET r == saveUserProfile(db, sess[s].uid,
                  UserProfile(sess[s].uid, sess[s].input, sess[s].email), ok)
       IN  /\ db' = r.db
           /\ sess' = [sess EXCEPT ![s] =
                IF r.out = "ok"
                  THEN Finish(s, "", "ok", sess[s].found)
                  ELSE Finish(s, "login", "failed_profile", sess[s].found) ]
  /\ UNCHANGED <<res, shadow, ge, accounts, calls, subs, view, app>>

(* auto-repair: await saveUserProfile(uid, {uid, email, username}) *)
LoginRepairProfile(s) ==
  /\ sess[s].pc = "repair_profile"
  /\ \E ok \in BOOLEAN :
       LET r == saveUserProfile(db, sess[s].uid,
                  UserProfile(sess[s].uid, sess[s].input, sess[s].email), ok)
       IN  /\ db' = r.db
           /\ sess' = [sess EXCEPT ![s] =
                IF r.out = "ok"
                  THEN Finish(s, "", "ok", sess[s].found)
                  ELSE Finish(s, "", "failed_profile", sess[s].found) ]
  /\ UNCHANGED <<res, shadow, ge, accounts, calls, subs, view, app>>

(* ------------------------------------------------------------------ *)
(* Auth.handleRegister                                                 *)
(* ------------------------------------------------------------------ *)
(* a registration without the "username taken" pre-check *)
RegisterSubmit_noCheck(s) ==
  /\ CanStart(s)
  /\ sess[s].user = NoStr
  /\ calls' = calls + 1
  /\ \E in \in RegisterInputs, confirmOk \in BOOLEAN, ok \in BOOLEAN :
       LET r == getUidByUsername(db, in.username, ok) IN
         sess' = [sess EXCEPT ![s] =
           IF Len(in.username) < 3
             THEN Finish(s, "short", "none", sess[s].found)
           ELSE IF ~confirmOk
             THEN Finish(s, "mismatch", "none", sess[s].found)
           ELSE IF r.out = "raised"
             THEN Finish(s, "backend", "none", sess[s].found)
           ELSE [Begin(s) EXCEPT !.pc = "reg_create",
                                 !.input = in.username, !.email = in.email] ]
  /\ UNCHANGED <<db, res, shadow, ge, accounts, subs, view, app>>

RegisterSubmit(s) ==
  /\ CanStart(s)
  /\ sess[s].user = NoStr
  /\ calls' = calls + 1
  /\ \E in \in RegisterInputs, confirmOk \in BOOLEAN, ok \in BOOLEAN :
       LET r == getUidByUsername(db, in.username, ok) IN
         sess' = [sess EXCEPT ![s] =
           IF Len(in.username) < 3
             THEN Finish(s, "short", "none", sess[s].found)
           ELSE IF ~confirmOk
             THEN Finish(s, "mismatch", "none", sess[s].found)
           ELSE IF r.out = "raised"
             THEN Finish(s, "backend", "none", sess[s].found)
           ELSE IF r.val # JSNull
             THEN Finish(s, "taken", "none", sess[s].found)
           ELSE [Begin(s) EXCEPT !.pc = "reg_create",
                                 !.input = in.username, !.email = in.email] ]
  /\ UNCHANGED <<db, res, shadow, ge, accounts, subs, view, app>>

(* await auth.createUserWithEmailAndPassword(email, password) *)
RegisterCreate(s) ==
  /\ sess[s].pc = "reg_create"
  /\ \E accepted \in BOOLEAN :
       IF accepted /\ ~\E a \in accounts : a.email = sess[s].email
         THEN /\ accounts' = accounts \cup
                   {[email |-> sess[s].email, uid |-> NewUid(sess[s].email)]}
              /\ sess' = [sess EXCEPT ![s] =
                   [sess[s] EXCEPT !.pc = "reg_username",
                                   !.uid = NewUid(sess[s].email),
                                   !.user = NewUid(sess[s].email)] ]
         ELSE /\ accounts' = accounts
              /\ sess' = [sess EXCEPT ![s] =
                   Finish(s, "backend", "none", sess[s].found)]
  /\ UNCHANGED <<db, res, shadow, ge, calls, subs, view, app>>

(* a registration that checks the mapping again when it writes it *)
RegisterName_conditional(s) ==
  /\ sess[s].pc = "reg_username"
  /\ \E ok \in BOOLEAN :
       LET r == registerUsername(db, sess[s].input, sess[s].email,
                                 sess[s].uid, ok)
           taken == getUidByUsername(db, sess[s].input, TRUE).val # JSNull
       IN  /\ db' = IF taken THEN db ELSE r.db
           /\ sess' = [sess EXCEPT ![s] =
                IF taken THEN Finish(s, "taken", "none", sess[s].found)
                ELSE IF r.out = "ok"
                  THEN [sess[s] EXCEPT !.pc = "reg_profile"]
                  ELSE Finish(s, "backend", "none", sess[s].found) ]
  /\ UNCHANGED <<res, shadow, ge, accounts, calls, subs, view, app>>

(* await registerUsername(username, email, user.uid) *)
RegisterName(s) ==
  /\ sess[s].pc = "reg_username"
  /\ \E ok \in BOOLEAN :
       LET r == registerUsername(db, sess[s].input, sess[s].email,
                                 sess[s].uid, ok)
       IN  /\ db' = r.db
           /\ sess' = [sess EXCEPT ![s] =
                IF r.out = "ok"
                  THEN [sess[s] EXCEPT !.pc = "reg_profile"]
                  ELSE Finish(s, "backend", "none", sess[s].found) ]
  /\ UNCHANGED <<res, shadow, ge, accounts, calls, subs, view, app>>

(* await saveUserProfile(user.uid, {uid, email, username}) *)
RegisterProfile(s) ==
  /\ sess[s].pc = "reg_profile"
  /\ \E ok \in BOOLEAN :
       LET r == saveUserProfile(db, sess[s].uid,
                  UserProfile(sess[s].uid, sess[s].input, sess[s].email), ok)
       IN  /\ db' = r.db
           /\ sess' = [sess EXCEPT ![s] =
                Finish(s, IF r.out = "ok" THEN "" ELSE "backend", "none",
                       sess[s].found) ]
  /\ UNCHANGED <<res, shadow, ge, accounts, calls, subs, view, app>>

(* ------------------------------------------------------------------ *)
(* Search.handleSearch                                                 *)
(* ------------------------------------------------------------------ *)
(* a legacy test that looks for '.' only *)
SearchIsLegacy_dotOnly(uid) == includes(uid, ".")

(* the legacy test applied to the resolved value *)
SearchIsLegacy(uid) == includes(uid, "@") \/ includes(uid, ".")

SearchSubmit(s) ==
  /\ CanStart(s)
  /\ sess[s].user # NoStr
  /\ \E query \in SearchQueries, ok \in BOOLEAN :
       LET r == getUidByUsername(db, query, ok) IN
         IF trim(query) = <<>>
           THEN UNCHANGED <<sess, calls, subs, view, app>>
           ELSE /\ calls' = calls + 1
                /\ sess' = [sess EXCEPT ![s] =
                     [ (IF r.out = "raised"
                          THEN Finish(s, "search", "none", FALSE)
                        ELSE IF r.val = JSNull
                          THEN Finish(s, "notfound", "none", FALSE)
                        ELSE IF ~IsString(r.val)
                          THEN Finish(s, "search", "none", FALSE)
                        ELSE IF SearchIsLegacy(StringOf(r.val))
                          THEN Finish(s, "legacy", "none", FALSE)
                        ELSE [Begin(s) EXCEPT !.pc = "search_profile",
                                              !.input = query, !.found = FALSE,
                                              !.uid = StringOf(r.val)])
                       EXCEPT !.cleared = FALSE ] ]
  /\ UNCHANGED <<db, res, shadow, ge, accounts, subs, view, app>>

(* Promise.all: the getUserProfile(uid) request *)
SearchProfile(s) ==
  /\ sess[s].pc = "search_profile"
  /\ \E ok \in BOOLEAN :
       LET r == getUserProfile(db, sess[s].uid, ok) IN
         sess' = [sess EXCEPT ![s] =
           IF r.out = "raised"
             THEN Finish(s, "search", "none", FALSE)
             ELSE [sess[s] EXCEPT !.pc = "search_moods",
                                  !.legacy = (r.val # JSNull)] ]
  /\ UNCHANGED <<db, res, shadow, ge, accounts, calls, subs, view, app>>

(* Promise.all: the getUserMoods(uid) request, then the rest of the handler *)
SearchMoods(s) ==
  /\ sess[s].pc = "search_moods"
  /\ \E ok \in BOOLEAN :
       LET r == getUserMoods(db, sess[s].uid, ok) IN
         sess' = [sess EXCEPT ![s] =
           IF r.out = "raised"
             THEN Finish(s, "search", "none", FALSE)
           ELSE IF ~sess[s].legacy
             THEN Finish(s, "noprofile", "none", FALSE)
           ELSE Finish(s, "", "none", TRUE) ]
  /\ UNCHANGED <<db, res, shadow, ge, accounts, calls, subs, view, app>>

(* Search.clearSearch: setQuery(''); setFoundUser(null); setError('').  *)
(* Its buttons are enabled while a search is in flight. cleared is     *)
(* history: clearSearch ran and no search was submitted since.         *)
ClearSearch(s) ==
  /\ sess[s].user # NoStr
  /\ sess[s].pc \in {"idle", "search_profile", "search_moods"}
  /\ sess' = [sess EXCEPT ![s] = [sess[s] EXCEPT !.found = FALSE, !.error = "",
                                               !.cleared = TRUE]]
  /\ UNCHANGED <<db, res, shadow, ge, accounts, calls, subs, view, app>>

(* App.handleLogout: auth.signOut() *)
HandleLogout(s) ==
  /\ sess[s].user # NoStr
  /\ sess' = [sess EXCEPT ![s] = [sess[s] EXCEPT !.user = NoStr, !.found = FALSE,
                                               !.cleared = FALSE]]
  /\ UNCHANGED <<db, res, shadow, ge, accounts, calls, subs, view, app>>

NextAuth ==
  \/ GetEmailLookup
  \/ GetEmailProfile
  \/ \E s \in Sessions :
       \/ LoginSubmit(s)
       \/ LoginProfile(s)
       \/ LoginSignIn(s)
       \/ LoginRepairRegister(s)
       \/ LoginRepairProfile(s)
       \/ RegisterSubmit(s)
       \/ RegisterCreate(s)
       \/ RegisterName(s)
       \/ RegisterProfile(s)
       \/ SearchSubmit(s)
       \/ SearchProfile(s)
       \/ SearchMoods(s)
       \/ HandleLogout(s)

SpecAuth == Init /\ [][NextAuth]_vars

(* the Search component of clients that registered *)
NextSearch ==
  \E s \in Sessions :
    \/ RegisterSubmit(s)
    \/ RegisterCreate(s)
    \/ RegisterName(s)
    \/ RegisterProfile(s)
    \/ SearchSubmit(s)
    \/ SearchProfile(s)
    \/ SearchMoods(s)
    \/ ClearSearch(s)

SpecSearch == Init /\ [][NextSearch]_vars

(* ------------------------------------------------------------------ *)
(* subscribeToMoods: listeners on a user's mood collection             *)
(* ------------------------------------------------------------------ *)
(* the arrow function handed to onValue by the i-th subscribeToMoods, *)
(* and the Unsubscribe function onValue returns for it                *)
CallbackOf(i)    == <<"callback", i>>
UnsubscribeOf(i) == <<"unsubscribe", i>>
NoFunction       == <<"none", 0>>

(* a listener at a reference other than the collection *)
moodsRef_moodsFirst(userId) ==
  Pieces(K_moods \o Slash \o userId)

(* ref(db, `users/${userId}/moods`) *)
moodsRef(userId) == Pieces(MoodsPathString(userId))

(* the snapshot callback without its else branch: callback(snapshot.val()) *)
moodsListener_noFallback(snapshot) ==
  IF Exists(snapshot) THEN JSVal(snapshot) ELSE JSNull

(* (snapshot) => snapshot.exists() ? callback(snapshot.val()) : callback({}): *)
(* the argument the subscriber's callback is invoked with                    *)
moodsListener(snapshot) ==
  IF Exists(snapshot) THEN JSVal(snapshot) ELSE JSVal({})

(* one subscribeToMoods call.                                          *)
(*   attached: onValue registered `registered` at `path`               *)
(*   listener: what subscribeToMoods keeps from onValue and hands to   *)
(*             off in the function it returns (NoFunction: it returned *)
(*             the empty closure)                                      *)
(*   queue:    value events raised and not yet dispatched              *)
(*   got:      the arguments of the callback's invocations, in order   *)
(*   hist:     history: the user's collection at the subscription and  *)
(*             after every later change of it                          *)
(*   cleaned:  the returned function has been invoked; atClean: the    *)
(*             length of hist when it was                              *)
Subscription(userId, path, attached, registered, listener, queue, got, hist) ==
  [userId |-> userId, path |-> path, attached |-> attached,
   registered |-> registered, listener |-> listener, queue |-> queue,
   got |-> got, hist |-> hist, cleaned |-> FALSE, atClean |-> 0]

(* subscribeToMoods(userId, callback): the calls made so far with this *)
(* one added. onValue registers the arrow function and the first value *)
(* event carries the data at the reference.                            *)
subscribeToMoods(ls, d, userId) ==
  LET i == Len(ls) + 1 IN
    IF userId = <<>> \/ includes(userId, ".") \/ includes(userId, "@")
      THEN Append(ls, Subscription(userId, <<>>, FALSE, NoFunction, NoFunction,
                                   <<>>, <<JSVal({})>>, <<>>))
    ELSE IF ~ValidPathString(MoodsPathString(userId)) THEN ls
    ELSE Append(ls, Subscription(userId, moodsRef(userId), TRUE, CallbackOf(i),
                                 UnsubscribeOf(i),
                                 <<DbGet(d, moodsRef(userId))>>, <<>>,
                                 <<DbGet(d, Pieces(MoodsPathString(userId)))>>))

(* off(ref, 'value', f): detaches the listeners registered at ref whose *)
(* callback is f                                                        *)
off(ls, path, f) ==
  [i \in DOMAIN ls |->
     IF ls[i].attached /\ ls[i].path = path /\ ls[i].registered = f
       THEN [ls[i] EXCEPT !.attached = FALSE, !.queue = <<>>]
       ELSE ls[i]]

(* the function subscribeToMoods returned for its i-th call *)
returned(ls, i) ==
  LET done == [ls EXCEPT ![i].cleaned = TRUE, ![i].atClean = Len(ls[i].hist)]
  IN  IF ls[i].listener = NoFunction THEN done
      ELSE off(done, ls[i].path, ls[i].listener)

(* a write that took the database from d to d2: a value event for     *)
(* every attached listener whose data changed                         *)
RaiseValueEvents(ls, d, d2) ==
  [i \in DOMAIN ls |->
     IF ls[i].attached /\ DbGet(d2, ls[i].path) # DbGet(d, ls[i].path)
       THEN [ls[i] EXCEPT !.queue = Append(@, DbGet(d2, ls[i].path))]
       ELSE ls[i]]

(* history: an accepted write under userId that changed the database  *)
Recorded(ls, userId, d, d2) ==
  [i \in DOMAIN ls |->
     IF ls[i].userId = userId /\ ls[i].hist # <<>> /\ d2 # d
       THEN [ls[i] EXCEPT !.hist =
               Append(@, DbGet(d2, Pieces(MoodsPathString(userId))))]
       ELSE ls[i]]

SubscribeIds == {Uid1, DotId, EmptyId}
WriterIds    == {Uid1, Uid2}
LiveMoods    == {MoodLog(Date1, 2, 1), MoodLog(Date2, -1, 2)}

Subscribe ==
  /\ Len(subs) < MaxSubs
  /\ \E userId \in SubscribeIds : subs' = subscribeToMoods(subs, db, userId)
  /\ UNCHANGED <<db, res, shadow, ge, accounts, sess, calls, view, app>>

(* the event loop dispatches the oldest value event of a listener *)
Deliver ==
  \E i \in DOMAIN subs :
    /\ subs[i].attached /\ subs[i].queue # <<>>
    /\ subs' = [subs EXCEPT ![i].queue = Tail(@),
                            ![i].got = Append(@, moodsListener(Head(subs[i].queue)))]
    /\ UNCHANGED <<db, res, shadow, ge, accounts, sess, calls, view, app>>

Unsubscribe ==
  \E i \in DOMAIN subs :
    /\ ~subs[i].cleaned
    /\ subs' = returned(subs, i)
    /\ UNCHANGED <<db, res, shadow, ge, accounts, sess, calls, view, app>>

(* saveMood / deleteMood while listeners exist *)
SaveMoodLive ==
  /\ calls < MaxWrites
  /\ calls' = calls + 1
  /\ \E userId \in WriterIds, mood \in LiveMoods, ok \in BOOLEAN :
       LET r == saveMood(db, userId, mood, ok) IN
         /\ db' = r.db
         /\ subs' = Recorded(RaiseValueEvents(subs, db, r.db), userId, db, r.db)
  /\ UNCHANGED <<res, shadow, ge, accounts, sess, view, app>>

DeleteMoodLive ==
  /\ calls < MaxWrites
  /\ calls' = calls + 1
  /\ \E userId \in WriterIds, dateStr \in Dates, ok \in BOOLEAN :
       LET r == deleteMood(db, userId, dateStr, ok) IN
         /\ db' = r.db
         /\ subs' = Recorded(RaiseValueEvents(subs, db, r.db), userId, db, r.db)
  /\ UNCHANGED <<res, shadow, ge, accounts, sess, view, app>>

NextSub ==
  \/ Subscribe
  \/ Deliver
  \/ Unsubscribe
  \/ SaveMoodLive
  \/ DeleteMoodLive

SpecSub == Init /\ [][NextSub]_vars

(* ------------------------------------------------------------------ *)
(* Profile rendered                                                    *)
(* ------------------------------------------------------------------ *)
(* a push changed one record of the moods the component is given *)
MoodsChanged ==
  /\ \E m \in Records :
       LET others == {x \in view.moods : x.date # m.date}
           moods  == IF m \in view.moods THEN others ELSE others \cup {m}
       IN  /\ Cardinality(moods) <= MaxRecords
           /\ view' = Profile(view.today, moods)
  /\ UNCHANGED <<db, res, shadow, ge, accounts, sess, calls, subs, app>>

(* the component is rendered again at a later time *)
TimePasses ==
  /\ \E today \in Todays :
       /\ DateGE(today, view.today) /\ today # view.today
       /\ view' = Profile(today, view.moods)
  /\ UNCHANGED <<db, res, shadow, ge, accounts, sess, calls, subs, app>>

NextStats ==
  \/ MoodsChanged
  \/ TimePasses

SpecStats == Init /\ [][NextStats]_vars

(* ------------------------------------------------------------------ *)
(* App: the auth listener, the data effect, the entry flow and the    *)
(* month navigation                                                    *)
(* ------------------------------------------------------------------ *)
AppUsers == {Uid1, Uid2}

Max(a, b) == IF a >= b THEN a ELSE b
Min(a, b) == IF a <= b THEN a ELSE b

(* Math.round(n / d) for d > 0: the nearest integer, a half goes up *)
MathRound(n, d) == (2 * n + d) \div (2 * d)

(* the slider: its bounding rectangle and the values it offers *)
SliderRect  == [left |-> 0, width |-> 12]
SliderRange == [min |-> -3, max |-> 3]
ClientXs    == {-4, 1, 30}

(* a slider that does not confine the pointer to its track *)
handleInteract_noClamp(clientX) ==
  MathRound((clientX - SliderRect.left) * (SliderRange.max - SliderRange.min)
              + SliderRange.min * SliderRect.width, SliderRect.width)

(* MoodSlider.handleInteract(clientX): the value handed to onChange.  *)
(* rawValue = (x / width) * (max - min) + min                         *)
handleInteract(clientX) ==
  LET x == Max(0, Min(clientX - SliderRect.left, SliderRect.width))
      roundedValue ==
        MathRound(x * (SliderRange.max - SliderRange.min)
                    + SliderRange.min * SliderRect.width, SliderRect.width)
  IN  Max(SliderRange.min, Min(SliderRange.max, roundedValue))

(* existingLog.value *)
ValueOf(log) == (CHOOSE l \in log : l.path = <<K_value>>).val.n

(* onAuthStateChanged(currentUser) with a user: setUser, then the data *)
(* effect subscribes and keeps the returned function as its cleanup    *)
AppSignedIn(c, u) ==
  /\ app[c].user = NoStr
  /\ Len(subs) < MaxSignIns
  /\ LET ls == subscribeToMoods(subs, db, u) IN
       /\ subs' = ls
       /\ app' = [app EXCEPT ![c] =
            [@ EXCEPT !.user = u, !.cleanup = Len(ls),
                      !.listeners = @ \cup {Len(ls)}]]
  /\ UNCHANGED <<db, res, shadow, ge, accounts, sess, calls, view>>

(* onAuthStateChanged(null): setUser(null), then the cleanup of the    *)
(* data effect runs and the effect does setMoods({})                   *)
AppSignedOut(c) ==
  /\ app[c].user # NoStr
  /\ subs' = IF app[c].cleanup = 0 THEN subs ELSE returned(subs, app[c].cleanup)
  /\ app' = [app EXCEPT ![c] =
       [@ EXCEPT !.user = NoStr, !.moods = {}, !.from = NoStr, !.cleanup = 0]]
  /\ UNCHANGED <<db, res, shadow, ge, accounts, sess, calls, view>>

(* a value event of a listener of this App is dispatched: its callback *)
(* is (data) => setMoods(data)                                         *)
AppPush(c) ==
  \E i \in app[c].listeners :
    /\ subs[i].attached /\ subs[i].queue # <<>>
    /\ LET data == moodsListener(Head(subs[i].queue)) IN
         /\ subs' = [subs EXCEPT ![i].queue = Tail(@)]
         /\ app' = [app EXCEPT ![c] =
              [@ EXCEPT !.moods = data.v, !.from = subs[i].userId]]
    /\ UNCHANGED <<db, res, shadow, ge, accounts, sess, calls, view>>

(* App.handleDateClick(dateStr), from a day of the calendar *)
HandleDateClick(c, dateStr) ==
  /\ app[c].user # NoStr /\ ~app[c].isModalOpen
  /\ LET existingLog == Field(app[c].moods, dateStr) IN
       app' = [app EXCEPT ![c] =
         [@ EXCEPT !.selectedDateStr = dateStr,
                   !.tempMood = IF existingLog # {} THEN ValueOf(existingLog)
                                ELSE 0,
                   !.isEditing = (existingLog # {}),
                   !.isModalOpen = TRUE]]
  /\ UNCHANGED <<db, res, shadow, ge, accounts, sess, calls, subs, view>>

(* a pointer interaction with the slider of the open modal: onChange  *)
(* is setTempMood                                                      *)
SliderInteract(c) ==
  /\ app[c].user # NoStr /\ app[c].isModalOpen /\ app[c].req = NoRequest
  /\ \E clientX \in ClientXs :
       app' = [app EXCEPT ![c] = [@ EXCEPT !.tempMood = handleInteract(clientX)]]
  /\ UNCHANGED <<db, res, shadow, ge, accounts, sess, calls, subs, view>>

(* the close button of the modal: setIsModalOpen(false) *)
CloseModal(c) ==
  /\ app[c].user # NoStr /\ app[c].isModalOpen /\ app[c].req = NoRequest
  /\ app' = [app EXCEPT ![c] = [@ EXCEPT !.isModalOpen = FALSE]]
  /\ UNCHANGED <<db, res, shadow, ge, accounts, sess, calls, subs, view>>

(* App.handleSaveMood up to its await; Date.now() is the number of    *)
(* requests made so far                                                *)
HandleSaveMood(c) ==
  /\ app[c].user # NoStr /\ app[c].selectedDateStr # NoStr
  /\ app[c].isModalOpen /\ app[c].req = NoRequest
  /\ calls < MaxRequests
  /\ calls' = calls + 1
  /\ LET moodLog == MoodLog(app[c].selectedDateStr, app[c].tempMood, calls + 1)
         request == [kind |-> "save", userId |-> app[c].user, mood |-> moodLog]
     IN  app' = [app EXCEPT ![c] =
           [@ EXCEPT !.req = request, !.sent = request, !.out = "none"]]
  /\ UNCHANGED <<db, res, shadow, ge, accounts, sess, subs, view>>

(* the store applies the saveMood request; the handler resumes *)
SaveMoodDone(c) ==
  /\ app[c].req.kind = "save"
  /\ \E ok \in BOOLEAN :
       LET r == saveMood(db, app[c].req.userId, app[c].req.mood, ok) IN
         /\ db' = r.db
         /\ subs' = RaiseValueEvents(subs, db, r.db)
         /\ app' = [app EXCEPT ![c] =
              [@ EXCEPT !.req = NoRequest, !.out = r.out,
                        !.isModalOpen = IF r.out = "ok" THEN FALSE ELSE @]]
  /\ UNCHANGED <<res, shadow, ge, accounts, sess, calls, view>>

(* App.handleDeleteMood up to its await (the delete button is shown   *)
(* when editing)                                                       *)
HandleDeleteMood(c) ==
  /\ app[c].user # NoStr /\ app[c].selectedDateStr # NoStr
  /\ app[c].isModalOpen /\ app[c].isEditing /\ app[c].req = NoRequest
  /\ calls < MaxRequests
  /\ calls' = calls + 1
  /\ LET request == [kind |-> "delete", userId |-> app[c].user,
                     mood |-> MoodLog(app[c].selectedDateStr, 0, 0)]
     IN  app' = [app EXCEPT ![c] =
           [@ EXCEPT !.req = request, !.sent = request, !.out = "none"]]
  /\ UNCHANGED <<db, res, shadow, ge, accounts, sess, subs, view>>

(* the store applies the deleteMood request; the handler resumes *)
DeleteMoodDone(c) ==
  /\ app[c].req.kind = "delete"
  /\ \E ok \in BOOLEAN :
       LET r == deleteMood(db, app[c].req.userId, app[c].req.mood.date, ok) IN
         /\ db' = r.db
         /\ subs' = RaiseValueEvents(subs, db, r.db)
         /\ app' = [app EXCEPT ![c] =
              [@ EXCEPT !.req = NoRequest, !.out = r.out,
                        !.isModalOpen = IF r.out = "ok" THEN FALSE ELSE @]]
  /\ UNCHANGED <<res, shadow, ge, accounts, sess, calls, view>>

(* one App: users sign in and out of it and enter moods *)
NextApp ==
  \/ \E u \in AppUsers : AppSignedIn(1, u)
  \/ AppSignedOut(1)
  \/ AppPush(1)
  \/ HandleDateClick(1, Date1)
  \/ CloseModal(1)
  \/ HandleSaveMood(1)
  \/ SaveMoodDone(1)
  \/ HandleDeleteMood(1)
  \/ DeleteMoodDone(1)

SpecApp == Init /\ [][NextApp]_vars

(* one App, one user: the entry flow *)
NextEntry ==
  \/ AppSignedIn(1, Uid1)
  \/ AppPush(1)
  \/ \E dateStr \in Dates : HandleDateClick(1, dateStr)
  \/ SliderInteract(1)
  \/ HandleSaveMood(1)
  \/ SaveMoodDone(1)
  \/ HandleDeleteMood(1)
  \/ DeleteMoodDone(1)

SpecEntry == Init /\ [][NextEntry]_vars

(* two Apps of one user, on two devices *)
NextLww ==
  \E c \in AppClients :
    \/ AppSignedIn(c, Uid1)
    \/ AppPush(c)
    \/ HandleDateClick(c, Date1)
    \/ HandleSaveMood(c)
    \/ SaveMoodDone(c)
    \/ HandleDeleteMood(c)
    \/ DeleteMoodDone(c)

SpecLww == Init /\ [][NextLww]_vars

(* the month a Date lies in, counted from year 0 *)
MonthIndex(date) == getFullYear(date) * 12 + getMonth(date)

(* const newDate = new Date(currentDate);                              *)
(* newDate.setMonth(newDate.getMonth() + offset)                       *)
handleChangeMonth(currentDate, offset) ==
  setMonth(currentDate, getMonth(currentDate) + offset)

(* the days on which the App is opened: useState(new Date()) *)
MountDays ==
  { DaysFromCivil(2024, 1, 31), DaysFromCivil(2024, 3, 30),
    DaysFromCivil(2024, 5, 31), DaysFromCivil(2024, 6, 24) }

AppMounted(c) ==
  /\ app[c].user = NoStr /\ app[c].listeners = {}
  /\ \E day \in MountDays :
       app' = [app EXCEPT ![c] = [AppIdle EXCEPT !.currentDate = JSDate(day, 0)]]
  /\ UNCHANGED <<db, res, shadow, ge, accounts, sess, calls, subs, view>>

(* Calendar.handlePrevMonth / handleNextMonth: onChangeMonth(-1 / 1) *)
HandleChangeMonth(c) ==
  /\ app[c].user # NoStr
  /\ \E offset \in {-1, 1} :
       LET newDate == handleChangeMonth(app[c].currentDate, offset) IN
         /\ MonthIndex(newDate) - MonthIndex(AppIdle.currentDate) <= MaxMonths
         /\ MonthIndex(AppIdle.currentDate) - MonthIndex(newDate) <= MaxMonths
         /\ app' = [app EXCEPT ![c] = [@ EXCEPT !.currentDate = newDate]]
  /\ UNCHANGED <<db, res, shadow, ge, accounts, sess, calls, subs, view>>

NextNav ==
  \E c \in AppClients :
    \/ AppMounted(c)
    \/ AppSignedIn(c, Uid1)
    \/ HandleChangeMonth(c)

SpecNav == Init /\ [][NextNav]_vars

(* ------------------------------------------------------------------ *)
(* Mood Store and Profile Store properties                             *)
(* ------------------------------------------------------------------ *)
WellFormedIds == {u \in UserIds : WellFormed(u)}

(* C1: round trip. A getUserMoods(userId) that did not fail, for a     *)
(* userId without '.' and '@', returns at every date the record of the *)
(* last saveMood(userId, r) not followed by another write to that key. *)
C1_RoundTrip ==
  (res.op = "getUserMoods" /\ WellFormed(res.a1) /\ res.out = "ok" /\ ~res.failed)
    => \A dt \in Dates :
         shadow[<<res.a1, dt>>] # NoMood
           => Field(res.val.v, dt) = ObjOfMood(shadow[<<res.a1, dt>>])

(* the round trip for the identifiers getUserMoods accepts (not a claim) *)
RoundTripNonEmpty ==
  (res.op = "getUserMoods" /\ WellFormed(res.a1) /\ res.a1 # <<>>
     /\ res.out = "ok" /\ ~res.failed)
    => \A dt \in Dates :
         shadow[<<res.a1, dt>>] # NoMood
           => Field(res.val.v, dt) = ObjOfMood(shadow[<<res.a1, dt>>])

(* C2: overwrite. The collection the store holds for a user has, at    *)
(* every date, exactly the record of the most recent saveMood for that *)
(* date (none if none was saved or it was deleted since), and nothing  *)
(* else.                                                               *)
C2_Overwrite ==
  \A u \in WellFormedIds :
    LET coll == DbGet(db, Pieces(MoodsPathString(u))) IN
      /\ \A dt \in Dates :
           Field(coll, dt) = IF shadow[<<u, dt>>] = NoMood THEN {}
                             ELSE ObjOfMood(shadow[<<u, dt>>])
      /\ \A l \in coll : Len(l.path) = 2 /\ l.path[1] \in Dates

C2_Witness ==
  /\ res.op = "saveMood" /\ res.out = "ok" /\ ~res.failed
  /\ res.a1 = Uid1 /\ res.a2 = Date1
  /\ res.prev # NoMood /\ res.prev.value = 2
  /\ shadow[<<Uid1, Date1>>].value = -1
  /\ Field(DbGet(db, Pieces(MoodsPathString(Uid1))), Date1)
       = ObjOfMood(MoodLog(Date1, -1, 2))

(* C3: idempotent delete. From every store state and for every userId  *)
(* and date, deleting twice gives the store that deleting once gives,  *)
(* and deleting a date that has no record changes nothing.             *)
C3_IdempotentDelete ==
  \A u \in UserIds, dt \in Dates :
    LET once  == deleteMood(db, u, dt, TRUE).db
        twice == deleteMood(once, u, dt, TRUE).db
    IN  /\ twice = once
        /\ DbGet(db, Pieces(MoodPathString(u, dt))) = {} => once = db

C3_Witness ==
  /\ res.op = "deleteMood" /\ res.out = "ok" /\ ~res.failed
  /\ res.a1 = Uid1 /\ res.a2 = Date1
  /\ res.prev # NoMood
  /\ shadow[<<Uid1, Date2>>] # NoMood
  /\ DbGet(db, Pieces(MoodPathString(Uid1, Date1))) = {}

Malformed(userId) == includes(userId, ".") \/ includes(userId, "@")

(* C4: malformed-id guard. A call of saveMood, deleteMood or           *)
(* saveUserProfile with a userId containing '.' or '@' leaves the      *)
(* database as it was and returns; getUserProfile then returns null    *)
(* and getUserMoods the empty mapping; none of them raises.            *)
C4_MalformedGuard ==
  [][ ( /\ res'.op \in {"saveMood", "deleteMood", "saveUserProfile",
                        "getUserProfile", "getUserMoods"}
        /\ Malformed(res'.a1) )
      => /\ db' = db
         /\ res'.out = "ok"
         /\ res'.op = "getUserProfile" => res'.val = JSNull
         /\ res'.op = "getUserMoods" => res'.val = JSVal({}) ]_vars

C4_Witness ==
  /\ res.op = "saveMood" /\ res.a1 = AtId /\ res.out = "ok"
  /\ shadow[<<Uid1, Date1>>] # NoMood
  /\ DbGet(db, <<K_users, AtId>>) = {}

(* C5: failure collapse. When the backend fetch fails, getUserProfile  *)
(* returns null and getUserMoods the empty mapping, the results they   *)
(* give on a database holding nothing; neither raises.                 *)
C5_FailureCollapse ==
  /\ (res.op = "getUserProfile" /\ res.failed)
       => /\ res.out = "ok"
          /\ res.val = JSNull
          /\ res.val = getUserProfile({}, res.a1, TRUE).val
  /\ (res.op = "getUserMoods" /\ res.failed)
       => /\ res.out = "ok"
          /\ res.val = JSVal({})
          /\ res.val = getUserMoods({}, res.a1, TRUE).val

C5_Witness ==
  /\ res.op = "getUserMoods" /\ res.failed /\ res.a1 = Uid1
  /\ DbGet(db, Pieces(MoodsPathString(Uid1))) # {}

(* ------------------------------------------------------------------ *)
(* Identity Directory properties                                       *)
(* ------------------------------------------------------------------ *)
(* the stored mapping a username addresses *)
MappingOf(d, username) ==
  DbGet(d, Pieces(UsernamePathString(trim(toLowerCase(username)))))

(* C6 as stated: a backend fetch failure during getUidByUsername is    *)
(* caught locally and the call returns absent (null), as for a         *)
(* username that has no mapping.                                       *)
C6_FetchFailureCaught ==
  (res.op = "getUidByUsername" /\ res.failed)
    => (res.out = "ok" /\ res.val = JSNull)

(* C6 amended: a backend fetch failure during getUidByUsername is not  *)
(* caught there, the call raises to its caller; the call returns       *)
(* absent (null) only when the username has no mapping.                *)
C6_FetchFailureRaised ==
  /\ (res.op = "getUidByUsername" /\ res.failed) => res.out = "raised"
  /\ (res.op = "getUidByUsername" /\ res.out = "ok" /\ res.val = JSNull)
       => MappingOf(db, res.a1) = {}

C6_Witness ==
  /\ res.op = "getUidByUsername" /\ res.failed /\ res.out = "raised"
  /\ MappingOf(db, res.a1) = Prim(Str(Uid2))

(* two usernames are equal after lowercasing and trimming *)
SameNormalized(u1, u2) == trim(toLowerCase(u1)) = trim(toLowerCase(u2))

(* C7: normalization. After registerUsername(u1, _, id), for every u2  *)
(* equal to u1 after lowercasing and trimming, getUidByUsername(u2)    *)
(* returns id.                                                         *)
C7_Normalization ==
  (res.op = "registerUsername" /\ res.out = "ok")
    => \A u2 \in Usernames :
         SameNormalized(res.a1, u2)
           => getUidByUsername(db, u2, TRUE).val = JSVal(Prim(Str(res.a2)))

C7_Witness ==
  /\ res.op = "registerUsername" /\ res.out = "ok"
  /\ res.a1 = <<" ","A","n","n">> /\ res.a2 = Uid2
  /\ getUidByUsername(db, <<"A","N","N"," ">>, TRUE).val = JSVal(Prim(Str(Uid2)))
  /\ getUidByUsername(db, <<"a","n","n">>, TRUE).val = JSVal(Prim(Str(Uid2)))

(* ------------------------------------------------------------------ *)
(* Login, search and legacy repair properties                          *)
(* ------------------------------------------------------------------ *)
(* the identifiers of the requests on users/{id}/... that the handlers *)
(* and getEmailByUsername have issued and are awaiting                 *)
IdsInUse ==
  {sess[s].uid : s \in {t \in Sessions :
      sess[t].pc \in {"login_profile", "search_profile", "search_moods",
                      "repair_profile", "reg_profile"}}}
    \cup (IF ge.pc = "profile" THEN {ge.uid} ELSE {})

(* C8: legacy detection. No consumer of getUidByUsername (login,       *)
(* search, getEmailByUsername) uses a resolved value containing '@' as *)
(* the identifier of getUserProfile, getUserMoods or a users/{id} path.*)
C8_LegacyDetection == \A id \in IdsInUse : ~includes(id, "@")

C8_Witness ==
  /\ \E s \in Sessions : sess[s].error = "legacy" /\ sess[s].user # NoStr
  /\ \E t \in Sessions :
       sess[t].pc = "login_signin" /\ sess[t].legacy /\ sess[t].email = Email1

RepairPcs == {"repair_register", "repair_profile"}

ProfileOf(d, userId) == DbGet(d, Pieces(ProfilePathString(userId)))

(* C9: legacy repair. A repair that completes without backend failure  *)
(* leaves the mapping of the normalized username at the authenticated  *)
(* user's identifier and the profile at that identifier equal to       *)
(* {uid, email, username}; a repair is in progress only for a signed-in*)
(* account, and the login handler writes nothing before that, so a     *)
(* failed sign-in leaves the database unchanged.                       *)
C9_LegacyRepair ==
  [][ \A s \in Sessions :
        /\ (sess[s].pc = "repair_profile" /\ sess'[s].repair = "ok")
             => /\ MappingOf(db', sess[s].input) = Prim(Str(sess[s].uid))
                /\ ProfileOf(db', sess[s].uid) =
                     ObjOfProfile(UserProfile(sess[s].uid, sess[s].input,
                                              sess[s].email))
        /\ sess[s].pc \in RepairPcs
             => /\ sess[s].legacy
                /\ [email |-> sess[s].email, uid |-> sess[s].uid] \in accounts
        /\ (sess[s].pc \in {"login_profile", "login_signin"}
              /\ sess'[s] # sess[s])
             => db' = db
        /\ (sess[s].pc = "idle"
              /\ sess'[s].pc \in {"login_profile", "login_signin"})
             => db' = db ]_vars

C9_Witness ==
  \E s \in Sessions :
    /\ sess[s].pc = "idle" /\ sess[s].repair = "ok" /\ sess[s].user = Uid1
    /\ MappingOf(db, <<"A","N","N"," ">>) = Prim(Str(Uid1))
    /\ ProfileOf(db, Uid1) = ObjOfProfile(UserProfile(Uid1, <<"A","N","N">>, Email1))

(* C10 as stated: when the legacy repair fails at either of its steps  *)
(* (and no other handler has run), the username mapping is still the   *)
(* legacy email value afterwards.                                      *)
C10_StaleMappingAfterFailure ==
  [][ \A s \in Sessions :
        ( /\ calls = 1
          /\ sess[s].pc \in RepairPcs
          /\ sess'[s].repair \in {"failed_register", "failed_profile"} )
        => MappingOf(db', sess[s].input) = Prim(Str(sess[s].email)) ]_vars

(* ------------------------------------------------------------------ *)
(* Login failure handling and registration properties                  *)
(* ------------------------------------------------------------------ *)
(* C11: legacy repair failure is non-fatal. On the step where a repair *)
(* write fails (the sign-in has succeeded), the handler sets no error, *)
(* clears the loading flag and leaves the signed-in user as it is; the *)
(* loading flag is set while the repair is in progress.                *)
C11_RepairFailureNonFatal ==
  [][ \A s \in Sessions :
        /\ ( sess[s].pc \in RepairPcs
             /\ sess'[s].repair \in {"failed_register", "failed_profile"} )
           => /\ sess'[s].error = ""
              /\ sess'[s].loading = FALSE
              /\ sess'[s].pc = "idle"
              /\ sess'[s].user = sess[s].user
        /\ sess[s].pc \in RepairPcs => sess[s].loading ]_vars

C11_Witness ==
  \E s \in Sessions :
    /\ sess[s].pc = "idle" /\ sess[s].repair = "failed_profile"
    /\ sess[s].error = "" /\ ~sess[s].loading /\ sess[s].user = Uid1

RegisterPcs == {"reg_create", "reg_username", "reg_profile"}

(* C12: uniqueness pre-check. A registration goes on to create an      *)
(* account only if its normalized username had no mapping at the check;*)
(* otherwise it ends at the check with an error shown, and that step   *)
(* changes no account, no mapping and no profile.                      *)
C12_UniquenessPreCheck ==
  [][ \A s \in Sessions :
        /\ (sess[s].pc = "idle" /\ sess'[s].pc = "reg_create")
             => MappingOf(db, sess'[s].input) = {}
        /\ (sess[s].pc = "idle" /\ sess'[s].pc = "idle"
              /\ sess'[s].error = "taken" /\ calls' # calls)
             => /\ db' = db
                /\ accounts' = accounts
                /\ sess'[s].user = NoStr
        /\ (sess[s].pc = "idle" /\ sess'[s].pc \in RegisterPcs)
             => sess'[s].pc = "reg_create" ]_vars

C12_Witness ==
  /\ \E s \in Sessions :
       /\ sess[s].pc = "idle" /\ sess[s].error = "taken" /\ sess[s].user = NoStr
  /\ MappingOf(db, <<"b","o","b">>) = Prim(Str(Uid2))
  /\ MappingOf(db, <<"a","n","n">>) = Prim(Str(Email1))
  /\ Uid3 \notin {a.uid : a \in accounts}

(* C13: registration race. The write of the mapping is unconditional:  *)
(* it stores the registering account's identifier whatever the mapping *)
(* holds by then, it ends the registration only on a backend failure,  *)
(* and "username taken" is reported by the pre-check alone. So two     *)
(* registrations of one normalized username that both passed the check *)
(* both write, the later write wins, and neither reports an error.     *)
C13_RegistrationRace ==
  [][ \A s \in Sessions :
        /\ (sess[s].pc = "reg_username" /\ sess'[s].pc = "reg_profile")
             => MappingOf(db', sess[s].input) = Prim(Str(sess[s].uid))
        /\ (sess[s].pc = "reg_username" /\ sess'[s].pc = "idle")
             => (sess'[s].error = "backend" /\ db' = db)
        /\ (sess'[s].error = "taken" /\ sess'[s] # sess[s])
             => sess[s].pc = "idle" ]_vars

C13_Witness ==
  /\ \A s \in Sessions : sess[s].pc = "idle" /\ sess[s].error = ""
  /\ {sess[s].user : s \in Sessions} = {Uid2, Uid3}
  /\ {Uid2, Uid3} \subseteq {a.uid : a \in accounts}
  /\ ProfileOf(db, Uid2) = ObjOfProfile(UserProfile(Uid2, <<"b","o","b">>, Email2))
  /\ ProfileOf(db, Uid3) = ObjOfProfile(UserProfile(Uid3, <<"B","O","B">>, Email3))
  /\ MappingOf(db, <<"b","o","b">>) = Prim(Str(Uid3))

(* ------------------------------------------------------------------ *)
(* Subscription properties                                             *)
(* ------------------------------------------------------------------ *)
Active(l) == l.attached /\ ~l.cleaned

(* C14: first delivery. A subscribeToMoods with an empty or malformed  *)
(* id has invoked the callback exactly once, with the empty mapping,   *)
(* when it returns. With a valid id the first invocation is pending    *)
(* from the subscription on, whether or not anything is written, and   *)
(* its argument is the collection at the subscription, the empty       *)
(* mapping if the user had none.                                       *)
C14_FirstDelivery ==
  \A i \in DOMAIN subs :
    LET l == subs[i] IN
      IF l.userId = <<>> \/ Malformed(l.userId)
        THEN l.got = <<JSVal({})>> /\ l.queue = <<>> /\ ~l.attached
        ELSE /\ (Active(l) /\ l.got = <<>>) => l.queue # <<>>
             /\ l.got # <<>> =>
                  l.got[1] = JSVal(l.hist[1])

C14_Witness ==
  /\ calls = 0
  /\ \E i \in DOMAIN subs :
       /\ subs[i].userId = Uid1 /\ subs[i].got = <<JSVal({})>>
       /\ subs[i].queue = <<>>

(* the call with a malformed id, returned (not a claim) *)
MalformedFirstDelivery ==
  \E i \in DOMAIN subs :
    /\ subs[i].userId = DotId /\ subs[i].got = <<JSVal({})>> /\ ~subs[i].attached

(* a first delivery that carries a record (not a claim) *)
FirstDeliveryNonEmpty ==
  \E i \in DOMAIN subs :
    /\ subs[i].userId = Uid1 /\ Len(subs[i].got) = 1
    /\ Field(subs[i].got[1].v, Date1) = ObjOfMood(MoodLog(Date1, 2, 1))

(* C15: live updates. For an active subscription the invocations made  *)
(* and the events still to dispatch are, in order, the collection at   *)
(* the subscription followed by the collection after each later change *)
(* of a record of that user, the last one being the current            *)
(* collection.                                                         *)
C15_LiveUpdates ==
  \A i \in DOMAIN subs :
    LET l == subs[i] IN
      Active(l) =>
        /\ Len(l.got) + Len(l.queue) = Len(l.hist)
        /\ \A n \in 1..Len(l.got) : l.got[n] = JSVal(l.hist[n])
        /\ \A n \in 1..Len(l.queue) : l.queue[n] = l.hist[Len(l.got) + n]
        /\ l.hist[Len(l.hist)] = DbGet(db, Pieces(MoodsPathString(l.userId)))

(* a step invokes the callback of a listener at most once (not a claim) *)
SerialDeliveries ==
  [][ \A i \in DOMAIN subs : Len(subs'[i].got) <= Len(subs[i].got) + 1 ]_vars

C15_Witness ==
  \E i \in DOMAIN subs :
    LET l == subs[i] IN
      /\ Active(l) /\ l.userId = Uid1 /\ Len(l.got) = 3 /\ l.queue = <<>>
      /\ l.got[1] = JSVal({})
      /\ Field(l.got[2].v, Date1) = ObjOfMood(MoodLog(Date1, 2, 1))
      /\ l.got[3] = JSVal({})

(* C16: unsubscribe. Once the function returned by subscribeToMoods    *)
(* has been invoked, the callback is not invoked for any change made   *)
(* after that; for an empty or malformed id the returned function does *)
(* nothing.                                                            *)
C16_Unsubscribe ==
  \A i \in DOMAIN subs :
    LET l == subs[i] IN
      l.cleaned =>
        IF l.userId = <<>> \/ Malformed(l.userId)
          THEN l.got = <<JSVal({})>>
          ELSE Len(l.got) <= l.atClean

(* what holds of the returned function (not a claim): for an empty or *)
(* malformed id it changes nothing but the record of its invocation   *)
ReturnedNoop ==
  [][ \A i \in DOMAIN subs :
        (~subs[i].cleaned /\ subs'[i].cleaned
           /\ (subs[i].userId = <<>> \/ Malformed(subs[i].userId)))
          => subs' = [subs EXCEPT ![i].cleaned = TRUE] ]_vars

(* ------------------------------------------------------------------ *)
(* Statistics properties                                               *)
(* ------------------------------------------------------------------ *)
(* the day a date string names, by the calendar's formatting *)
DayNamed(dateStr) == CHOOSE day \in RecordDays : DateStrOfDay(day) = dateStr

(* Monday to Sunday weeks: the days 7k - 3 .. 7k + 3 since 1970-01-01, *)
(* a Thursday                                                          *)
WeekOf(day) == (day + 3) \div 7

SameMonth(day1, day2) ==
  /\ CivilFromDays(day1).y = CivilFromDays(day2).y
  /\ CivilFromDays(day1).m = CivilFromDays(day2).m

Abs(x) == IF x < 0 THEN -x ELSE x

(* C17 as stated: with an empty collection each summary has count 0    *)
(* and an average that is a "no data" sentinel, not the number 0.      *)
C17_EmptySentinel ==
  view.moods = {} =>
    \A i \in 1..3 : view.stats[i].count = 0 /\ view.stats[i].value # Tenths(0)

(* C17 amended: with an empty collection each summary has count 0 and  *)
(* the average 0, and what is displayed for it is the "no data"        *)
(* placeholder, chosen by the count.                                   *)
C17_EmptyByCount ==
  view.moods = {} =>
    \A i \in 1..3 :
      /\ view.stats[i].count = 0
      /\ view.stats[i].value = Tenths(0)
      /\ view.shown[i] = <<"-">>

C17_Witness ==
  /\ view.moods = {} /\ getDay(view.today) = 0
  /\ \A i \in 1..3 : view.stats[i].count = 0 /\ view.shown[i] = <<"-">>

(* C18: weekly window. A record is in the current-week summary exactly *)
(* when its date names a day of the Monday-to-Sunday week containing   *)
(* today, whatever its timestamp; on a Sunday the window starts six    *)
(* days earlier.                                                       *)
C18_WeeklyWindow ==
  /\ view.week \subseteq view.moods
  /\ \A m \in view.moods :
       m \in view.week <=> WeekOf(DayNamed(m.date)) = WeekOf(view.today.day)
  /\ getDay(view.today) = 0 =>
       /\ Monday(view.today) = JSDate(view.today.day - 6, 0)
       /\ Sunday(view.today) = JSDate(view.today.day, 86399999)

C18_Witness ==
  /\ getDay(view.today) = 0
  /\ Cardinality(view.moods) = 4
  /\ {m.date : m \in view.week}
       = {DateStrOfDay(Sun0623 + 1), DateStrOfDay(Sun0623 + 7)}
  /\ {m.date : m \in view.moods \ view.week}
       = {DateStrOfDay(Sun0623), DateStrOfDay(Sun0623 + 8)}

ExpectedWindow(i) ==
  IF i = 1
    THEN {m \in view.moods : WeekOf(DayNamed(m.date)) = WeekOf(view.today.day)}
  ELSE IF i = 2
    THEN {m \in view.moods : SameMonth(DayNamed(m.date), view.today.day)}
  ELSE view.moods

(* C19: summary values. For the week, the month and all time the count *)
(* is the number of records in the window and the average is a nearest *)
(* tenth of their mean; all time is every record.                      *)
C19_SummaryValues ==
  \A i \in 1..3 :
    LET w  == ExpectedWindow(i)
        n  == Cardinality(w)
        st == view.stats[i]
    IN  /\ st.count = n
        /\ ~st.value.nan
        /\ n > 0 => 2 * Abs(st.value.t * n - 10 * SumValues(w)) <= n

(* the example: 2 on Monday and -2 on Wednesday of this week, 0 on the *)
(* following Monday                                                    *)
C19_Witness ==
  /\ view.today.day = Sun0623 + 3
  /\ view.moods = { MoodLog(DateStrOfDay(Sun0623 + 1), 2, 2),
                    MoodLog(DateStrOfDay(Sun0623 + 3), -2, 1),
                    MoodLog(DateStrOfDay(Sun0623 + 8), 0, 2) }
  /\ view.stats[1].value = Tenths(0) /\ view.stats[1].count = 2
  /\ view.stats[3].count = 3

(* averages that are not whole, one of them a half of a tenth (not a claim) *)
RoundedAverages ==
  /\ view.stats[3].count = 4 /\ SumValues(view.moods) = -1
  /\ view.stats[3].value = Tenths(-3)
  /\ view.stats[1].count = 3 /\ view.stats[1].value = Tenths(-3)

(* C20: monthly window. A record is in the current-month summary       *)
(* exactly when its date has the year and the month of today.          *)
C20_MonthlyWindow ==
  /\ view.month \subseteq view.moods
  /\ \A m \in view.moods :
       m \in view.month <=> SameMonth(DayNamed(m.date), view.today.day)

C20_Witness ==
  /\ view.today.day = Sun0623 + 3
  /\ {m.date : m \in view.month}
       = {DateStrOfDay(Sun0623), DateStrOfDay(Sun0623 + 3)}
  /\ {m.date : m \in view.moods \ view.month}
       = {DateStrOfDay(Jun2023), DateStrOfDay(Sun0623 + 8)}

(* ------------------------------------------------------------------ *)
(* Properties across the stores                                        *)
(* ------------------------------------------------------------------ *)
(* C23: frame of mood writes. A saveMood(u, r) or deleteMood(u, d)     *)
(* changes at most the record stored at (u, the date): every other    *)
(* record of u, every record of another user, every profile and every *)
(* username mapping is after the call what it was before it.           *)
C23_MoodWriteFrame ==
  [][ (res'.op \in {"saveMood", "deleteMood"} /\ db' # db)
      => /\ \A l \in (db \ db') \cup (db' \ db) :
              IsPrefix(Pieces(MoodPathString(res'.a1, res'.a2)), l.path)
         /\ \A u \in {x \in UserIds : x # <<>> /\ WellFormed(x)}, dt \in Dates :
              <<u, dt>> # <<res'.a1, res'.a2>>
                => DbGet(db', Pieces(MoodPathString(u, dt)))
                     = DbGet(db, Pieces(MoodPathString(u, dt)))
         /\ \A u \in {x \in UserIds : x # <<>> /\ WellFormed(x)} :
              DbGet(db', Pieces(ProfilePathString(u)))
                = DbGet(db, Pieces(ProfilePathString(u)))
         /\ DbGet(db', <<K_usernames>>) = DbGet(db, <<K_usernames>>) ]_vars

C23_Witness ==
  /\ res.op = "saveMood" /\ res.out = "ok" /\ ~res.failed
  /\ res.a1 = Uid1 /\ res.a2 = Date2 /\ res.prev # NoMood
  /\ DbGet(db, Pieces(MoodPathString(Uid1, Date1))) # {}
  /\ DbGet(db, Pieces(ProfilePathString(Uid1))) # {}
  /\ DbGet(db, <<K_usernames>>) # {}

(* the identifiers the authentication provider hands out *)
ProviderUids == {Uid1, Uid2, Uid3}

(* something is stored at users/<uid>/profile *)
HasProfile(d, uid) == \E l \in d : IsPrefix(<<K_users, uid, K_profile>>, l.path)

(* C22: profiles are permanent. A profile comes into existence only   *)
(* in the profile write of a registration or of a legacy repair, and  *)
(* a profile that exists in a state exists in every later state: no   *)
(* operation removes one.                                              *)
C22_ProfilesPermanent ==
  [][ db' # db => \A u \in ProviderUids :
        /\ HasProfile(db, u) => HasProfile(db', u)
        /\ (~HasProfile(db, u) /\ HasProfile(db', u))
             => \E s \in Sessions :
                  /\ sess[s].pc \in {"reg_profile", "repair_profile"}
                  /\ sess[s].uid = u
                  /\ sess'[s].pc = "idle" ]_vars

C22_Witness ==
  /\ HasProfile(db, Uid1) /\ HasProfile(db, Uid2)
  /\ \E s \in Sessions : sess[s].pc = "idle" /\ sess[s].user = NoStr
  /\ calls = MaxCalls

(* C26 as stated: after any sequence of registrations, logins and     *)
(* repairs, failing backend writes included, every username mapping   *)
(* whose value is an identifier (no '@') names an identifier that has *)
(* a stored profile. Read at the states where no handler is running.  *)
C26_MappingImpliesProfile ==
  (\A s \in Sessions : sess[s].pc = "idle")
    => \A l \in DbGet(db, <<K_usernames>>) :
         (Len(l.path) = 1 /\ l.val.t = "s" /\ ~includes(l.val.s, "@"))
           => HasProfile(db, l.val.s)

(* C25: "no data" is decided by the count. The display shows the     *)
(* "no data" placeholder for a summary exactly when its count is 0; a *)
(* summary of at least one record whose average is exactly 0 is shown *)
(* as 0, not as the placeholder.                                       *)
C25_NoDataByCount ==
  \A i \in 1..3 :
    /\ view.shown[i] = <<"-">> <=> view.stats[i].count = 0
    /\ displayLabel(view.stats[i]) = "no data" <=> view.stats[i].count = 0
    /\ (view.stats[i].count > 0 /\ view.stats[i].value = Tenths(0))
         => view.shown[i] = <<"0">>

(* Wednesday 2024-06-26 with one record, 0 on the following Monday:   *)
(* nothing this week, a zero average over the month and over all      *)
C25_Witness ==
  /\ view.today.day = Sun0623 + 3
  /\ view.moods = { MoodLog(DateStrOfDay(Sun0623 + 8), 0, 2) }
  /\ view.stats[1].count = 0 /\ view.shown[1] = <<"-">>
  /\ view.stats[3].count = 1 /\ view.stats[3].value = Tenths(0)
  /\ view.shown[3] = <<"0">>

(* C28 as stated: no stale search result. After clearSearch no result *)
(* is displayed until a new search has been submitted and has         *)
(* completed, also when a search was in flight at the clearing.        *)
C28_NoStaleResult ==
  \A s \in Sessions : sess[s].cleared => ~sess[s].found

(* clearSearch does remove the result displayed when it runs (not a claim) *)
ClearRemovesResult ==
  [][ \A s \in Sessions :
        (sess'[s].cleared /\ ~sess[s].cleared) => ~sess'[s].found ]_vars

(* ------------------------------------------------------------------ *)
(* App properties                                                      *)
(* ------------------------------------------------------------------ *)
(* the node a request of the App addresses *)
RequestPath(request) ==
  Pieces(MoodPathString(request.userId, request.mood.date))

(* C21: last write wins. With several saveMood / deleteMood requests  *)
(* for the same (user, date) in flight from different sessions, no    *)
(* request is rejected as stale: when the store accepts one, the      *)
(* record at the key is that request's effect (its record for a save, *)
(* none for a delete), whatever was stored and whenever the request   *)
(* was made. The final state is the effect of the last one applied.   *)
C21_LastWriteWins ==
  [][ \A c \in AppClients :
        (app[c].req # NoRequest /\ app'[c].req = NoRequest /\ app'[c].out = "ok")
          => DbGet(db', RequestPath(app[c].req))
               = IF app[c].req.kind = "save" THEN ObjOfMood(app[c].req.mood)
                 ELSE {} ]_vars

(* two saves of the same key were in flight together and the one made *)
(* first was applied last: its record is the one stored               *)
C21_Witness ==
  /\ \A c \in AppClients :
       app[c].req = NoRequest /\ app[c].out = "ok" /\ app[c].sent.kind = "save"
  /\ RequestPath(app[1].sent) = RequestPath(app[2].sent)
  /\ app[1].sent.mood.timestamp < app[2].sent.mood.timestamp
  /\ DbGet(db, RequestPath(app[1].sent)) = ObjOfMood(app[1].sent.mood)

(* a delete applied after a save made later than it (not a claim) *)
DeleteAppliedLast ==
  /\ \A c \in AppClients : app[c].req = NoRequest /\ app[c].out = "ok"
  /\ app[1].sent.kind = "delete" /\ app[2].sent.kind = "save"
  /\ RequestPath(app[1].sent) = RequestPath(app[2].sent)
  /\ DbGet(db, RequestPath(app[1].sent)) = {}

(* C24 as stated: the mirror follows the pushes. The mirror changes   *)
(* only by being replaced with the collection of a push (or emptied   *)
(* at sign-out), the save and delete handlers never change it, and    *)
(* whenever no user is signed in the mirror is empty.                  *)
C24_MirrorFollowsPushes ==
  [][ \A c \in AppClients :
        /\ app'[c].moods # app[c].moods
             => \/ \E i \in DOMAIN subs :
                     /\ subs[i].queue # <<>>
                     /\ subs'[i].queue = Tail(subs[i].queue)
                     /\ app'[c].moods = moodsListener(Head(subs[i].queue)).v
                \/ app'[c].user = NoStr /\ app'[c].moods = {}
        /\ app'[c].user = NoStr => app'[c].moods = {} ]_vars

(* the part of C24 that holds: only a push or a sign-out changes the  *)
(* mirror (not a claim)                                                *)
MirrorSetByPushes ==
  [][ \A c \in AppClients :
        app'[c].moods # app[c].moods
          => \/ \E i \in DOMAIN subs :
                  /\ subs[i].queue # <<>>
                  /\ subs'[i].queue = Tail(subs[i].queue)
                  /\ app'[c].moods = moodsListener(Head(subs[i].queue)).v
             \/ app'[c].user = NoStr /\ app'[c].moods = {} ]_vars

(* C27 as stated: mirror isolation across sessions. While a user is   *)
(* signed in, every collection in the mirror was delivered by a       *)
(* subscription of that user: after A signed out and B signed in the  *)
(* mirror is never set to a collection delivered for A.                *)
C27_MirrorIsolation ==
  \A c \in AppClients :
    (app[c].user # NoStr /\ app[c].from # NoStr) => app[c].from = app[c].user

(* C29: well-formed records from the entry flow. Every record written *)
(* by date click, slider and save is stored under the key equal to    *)
(* its date field and has an integer value from -3 to 3.               *)
C29_WellFormedRecords ==
  \A l \in db :
    (Len(l.path) >= 3 /\ l.path[1] = K_users /\ l.path[3] = K_moods)
      => /\ Len(l.path) = 5
         /\ Leaf(SubSeq(l.path, 1, 4) \o <<K_date>>, Str(l.path[4])) \in db
         /\ \E v \in SliderRange.min .. SliderRange.max :
              Leaf(SubSeq(l.path, 1, 4) \o <<K_value>>, Num(v)) \in db

(* a record saved from a pointer position beyond the end of the       *)
(* track, over an earlier record of the date that the date click      *)
(* loaded into the slider                                              *)
C29_Witness ==
  /\ app[1].sent.kind = "save" /\ app[1].out = "ok" /\ app[1].isEditing
  /\ app[1].sent.mood.timestamp > 1
  /\ app[1].sent.mood.value = SliderRange.max
  /\ DbGet(db, RequestPath(app[1].sent)) = ObjOfMood(app[1].sent.mood)
  /\ DbGet(db, moodsRef(Uid1)) # Field(DbGet(db, moodsRef(Uid1)), Date1)

(* C30 as stated: month navigation. From the month displayed,         *)
(* handleChangeMonth(+1) displays the next calendar month and         *)
(* handleChangeMonth(-1) the previous one, and +1 followed by -1      *)
(* displays the original month again; no month is skipped.             *)
C30_MonthNavigation ==
  \A c \in AppClients :
    LET d == app[c].currentDate IN
      app[c].user # NoStr
        => /\ MonthIndex(handleChangeMonth(d, 1)) = MonthIndex(d) + 1
           /\ MonthIndex(handleChangeMonth(d, -1)) = MonthIndex(d) - 1
           /\ MonthIndex(handleChangeMonth(handleChangeMonth(d, 1), -1))
                = MonthIndex(d)

(* navigation is exact from a day every month has (not a claim) *)
NavigationExactEarlyDays ==
  \A c \in AppClients :
    LET d == app[c].currentDate IN
      getDate(d) <= 28
        => /\ MonthIndex(handleChangeMonth(d, 1)) = MonthIndex(d) + 1
           /\ MonthIndex(handleChangeMonth(d, -1)) = MonthIndex(d) - 1

====
